---- MODULE Spec2Model ----
(***************************************************************************)
(* A model of the achronyme-core expression kernel (wasm/src): the token   *)
(* stream parser, the Value arithmetic, the tree-walking Evaluator with    *)
(* its Environment and closures, the higher-order built-ins, and the       *)
(* persistent-session host (main.cpp) with its handle table, the handle    *)
(* table on its own, and the sessions host (main_sessions.cpp).            *)
(*                                                                         *)
(* Doubles are modelled as exact rationals n/d in lowest terms.  A double  *)
(* the model does not represent (an irrational power, an infinity, a       *)
(* magnitude beyond MaxMag) is the single value NaR.  Identifiers are      *)
(* sequences of one-character strings so that tolower is computed.         *)
(***************************************************************************)
EXTENDS Integers, Sequences, FiniteSets, TLC

\* ------------------------------------------------------------------------
\* Bounds of the model
\* ------------------------------------------------------------------------
MaxEvals == 3

MaxHandles == 1

MaxIssued == 3

MaxDepth == 12

MaxPowExp == 12

MaxMag == 20000

MaxLen == 5

MaxRows == 3

MaxCols == 2

\* ------------------------------------------------------------------------
\* Numbers: exact rationals standing for double
\* ------------------------------------------------------------------------
Abs(x) == IF x < 0 THEN -x ELSE x

RECURSIVE GCD(_, _)
GCD(a, b) == IF b = 0 THEN a ELSE GCD(b, a % b)

NaR == [k |-> "num", n |-> 0, d |-> 0]

Rat(n, d) ==
    IF d = 0 THEN NaR
    ELSE LET g == GCD(Abs(n), Abs(d))
             s == IF d < 0 THEN -1 ELSE 1
             nn == (s * n) \div g
             dd == (s * d) \div g
         IN IF Abs(nn) > MaxMag \/ dd > MaxMag THEN NaR
            ELSE [k |-> "num", n |-> nn, d |-> dd]

Num(n) == Rat(n, 1)

IsNaR(a) == a.d = 0

IsZero(a) == a.d # 0 /\ a.n = 0

NumAdd(a, b) == IF IsNaR(a) \/ IsNaR(b) THEN NaR ELSE Rat(a.n * b.d + b.n * a.d, a.d * b.d)

NumNeg(a) == IF IsNaR(a) THEN NaR ELSE Rat(-a.n, a.d)

NumSub(a, b) == NumAdd(a, NumNeg(b))

NumMul(a, b) == IF IsNaR(a) \/ IsNaR(b) THEN NaR ELSE Rat(a.n * b.n, a.d * b.d)

\* a / b for b not exactly zero
NumDiv(a, b) == IF IsNaR(a) \/ IsNaR(b) THEN NaR ELSE Rat(a.n * b.d, a.d * b.n)

NumLess(a, b) == a.n * b.d < b.n * a.d

RECURSIVE NumIPow(_, _)
NumIPow(a, e) == IF e = 0 THEN Num(1) ELSE NumMul(a, NumIPow(a, e - 1))

\* std::pow(a, b): exact for an integer exponent, NaR otherwise
NumPow(a, b) ==
    IF IsNaR(a) \/ IsNaR(b) THEN NaR
    ELSE IF b.d # 1 \/ Abs(b.n) > MaxPowExp THEN NaR
    ELSE IF b.n >= 0 THEN NumIPow(a, b.n)
    ELSE IF a.n = 0 THEN NaR
    ELSE NumIPow(Rat(a.d, a.n), -b.n)

\* ------------------------------------------------------------------------
\* Results of fallible operations (a C++ return or a thrown exception)
\* ------------------------------------------------------------------------
NoVal == [k |-> "none"]

Ok(v) == [ok |-> TRUE, val |-> v, err |-> "none"]

Err(e) == [ok |-> FALSE, val |-> NoVal, err |-> e]

\* ------------------------------------------------------------------------
\* Value: Number | Complex | Vector | Matrix | Function
\* ------------------------------------------------------------------------
Cplx(re, im) == [k |-> "cplx", re |-> re, im |-> im]

Vec(es) == [k |-> "vec", e |-> es]

Mat(r, c, es) == [k |-> "mat", rows |-> r, cols |-> c, e |-> es]

isNumber(v) == v.k = "num"

isComplex(v) == v.k = "cplx"

isVector(v) == v.k = "vec"

isMatrix(v) == v.k = "mat"

isFunction(v) == v.k = "fn"

toComplex(v) == IF isComplex(v) THEN v ELSE Cplx(v, Num(0))

ComplexAdd(a, b) == Cplx(NumAdd(a.re, b.re), NumAdd(a.im, b.im))

ComplexSub(a, b) == Cplx(NumSub(a.re, b.re), NumSub(a.im, b.im))

ComplexMul(a, b) ==
    Cplx(NumSub(NumMul(a.re, b.re), NumMul(a.im, b.im)),
         NumAdd(NumMul(a.re, b.im), NumMul(a.im, b.re)))

ComplexDiv(a, b) ==
    LET denominator == NumAdd(NumMul(b.re, b.re), NumMul(b.im, b.im))
    IN IF IsZero(denominator) THEN Err("Division by zero in complex division")
       ELSE Ok(Cplx(NumDiv(NumAdd(NumMul(a.re, b.re), NumMul(a.im, b.im)), denominator),
                    NumDiv(NumSub(NumMul(a.im, b.re), NumMul(a.re, b.im)), denominator)))

ComplexNeg(a) == Cplx(NumNeg(a.re), NumNeg(a.im))

ComplexMagZero(a) == IsZero(a.re) /\ IsZero(a.im)

ComplexPow(a, w) ==
    IF ComplexMagZero(a) /\ ComplexMagZero(w) THEN Cplx(Num(1), Num(0))
    ELSE IF ComplexMagZero(a) THEN Cplx(Num(0), Num(0))
    ELSE Cplx(NaR, NaR)

VectorScale(es, s) == [i \in 1..Len(es) |-> NumMul(es[i], s)]

VectorAdd(a, b) ==
    IF Len(a) # Len(b) THEN Err("Vector dimension mismatch")
    ELSE Ok(Vec([i \in 1..Len(a) |-> NumAdd(a[i], b[i])]))

VectorSub(a, b) ==
    IF Len(a) # Len(b) THEN Err("Vector dimension mismatch")
    ELSE Ok(Vec([i \in 1..Len(a) |-> NumSub(a[i], b[i])]))

VectorDivScalar(es, s) ==
    IF IsZero(s) THEN Err("Division by zero in vector division")
    ELSE Ok(Vec(VectorScale(es, NumDiv(Num(1), s))))

MatrixAdd(a, b) ==
    IF a.rows # b.rows \/ a.cols # b.cols THEN Err("Matrix dimension mismatch")
    ELSE Ok(Mat(a.rows, a.cols, [i \in 1..Len(a.e) |-> NumAdd(a.e[i], b.e[i])]))

MatrixSub(a, b) ==
    IF a.rows # b.rows \/ a.cols # b.cols THEN Err("Matrix dimension mismatch")
    ELSE Ok(Mat(a.rows, a.cols, [i \in 1..Len(a.e) |-> NumSub(a.e[i], b.e[i])]))

RECURSIVE MatrixDotRow(_, _, _, _, _)
MatrixDotRow(a, b, i, j, k) ==
    IF k = 0 THEN Num(0)
    ELSE NumAdd(MatrixDotRow(a, b, i, j, k - 1),
                NumMul(a.e[(i - 1) * a.cols + k], b.e[(k - 1) * b.cols + j]))

MatrixMul(a, b) ==
    IF a.cols # b.rows THEN Err("Matrix dimension mismatch for multiplication")
    ELSE Ok(Mat(a.rows, b.cols,
                [x \in 1..(a.rows * b.cols) |->
                    MatrixDotRow(a, b, ((x - 1) \div b.cols) + 1, ((x - 1) % b.cols) + 1, a.cols)]))

MatrixDivScalar(m, s) ==
    IF IsZero(s) THEN Err("Division by zero in matrix division")
    ELSE Ok(Mat(m.rows, m.cols, VectorScale(m.e, NumDiv(Num(1), s))))

\* Value::operator+
ValueAdd(a, b) ==
    IF isNumber(a) /\ isNumber(b) THEN Ok(NumAdd(a, b))
    ELSE IF (isNumber(a) \/ isComplex(a)) /\ (isNumber(b) \/ isComplex(b))
        THEN Ok(ComplexAdd(toComplex(a), toComplex(b)))
    ELSE IF isVector(a) /\ isVector(b) THEN VectorAdd(a.e, b.e)
    ELSE IF isMatrix(a) /\ isMatrix(b) THEN MatrixAdd(a, b)
    ELSE IF isNumber(a) /\ isVector(b) THEN Ok(Vec([i \in 1..Len(b.e) |-> NumAdd(b.e[i], a)]))
    ELSE IF isVector(a) /\ isNumber(b) THEN Ok(Vec([i \in 1..Len(a.e) |-> NumAdd(a.e[i], b)]))
    ELSE IF isNumber(a) /\ isMatrix(b)
        THEN Ok(Mat(b.rows, b.cols, [i \in 1..Len(b.e) |-> NumAdd(b.e[i], a)]))
    ELSE IF isMatrix(a) /\ isNumber(b)
        THEN Ok(Mat(a.rows, a.cols, [i \in 1..Len(a.e) |-> NumAdd(a.e[i], b)]))
    ELSE Err("Incompatible types for addition")

\* Value::operator- (binary)
ValueSub(a, b) ==
    IF isNumber(a) /\ isNumber(b) THEN Ok(NumSub(a, b))
    ELSE IF (isNumber(a) \/ isComplex(a)) /\ (isNumber(b) \/ isComplex(b))
        THEN Ok(ComplexSub(toComplex(a), toComplex(b)))
    ELSE IF isVector(a) /\ isVector(b) THEN VectorSub(a.e, b.e)
    ELSE IF isMatrix(a) /\ isMatrix(b) THEN MatrixSub(a, b)
    ELSE IF isNumber(a) /\ isVector(b) THEN Ok(Vec([i \in 1..Len(b.e) |-> NumSub(a, b.e[i])]))
    ELSE IF isVector(a) /\ isNumber(b) THEN Ok(Vec([i \in 1..Len(a.e) |-> NumSub(a.e[i], b)]))
    ELSE Err("Incompatible types for subtraction")

\* Value::operator*
ValueMul(a, b) ==
    IF isNumber(a) /\ isNumber(b) THEN Ok(NumMul(a, b))
    ELSE IF (isNumber(a) \/ isComplex(a)) /\ (isNumber(b) \/ isComplex(b))
        THEN Ok(ComplexMul(toComplex(a), toComplex(b)))
    ELSE IF isVector(a) /\ isNumber(b) THEN Ok(Vec(VectorScale(a.e, b)))
    ELSE IF isNumber(a) /\ isVector(b) THEN Ok(Vec(VectorScale(b.e, a)))
    ELSE IF isMatrix(a) /\ isNumber(b) THEN Ok(Mat(a.rows, a.cols, VectorScale(a.e, b)))
    ELSE IF isNumber(a) /\ isMatrix(b) THEN Ok(Mat(b.rows, b.cols, VectorScale(b.e, a)))
    ELSE IF isMatrix(a) /\ isMatrix(b) THEN MatrixMul(a, b)
    ELSE Err("Incompatible types for multiplication")

\* variant: Number / Number is handed to the hardware division unchecked
ValueDiv_uncheckedNumbers(a, b) ==
    IF isNumber(a) /\ isNumber(b) THEN Ok(NumDiv(a, b))
    ELSE IF (isNumber(a) \/ isComplex(a)) /\ (isNumber(b) \/ isComplex(b))
        THEN ComplexDiv(toComplex(a), toComplex(b))
    ELSE IF isVector(a) /\ isNumber(b) THEN VectorDivScalar(a.e, b)
    ELSE IF isMatrix(a) /\ isNumber(b) THEN MatrixDivScalar(a, b)
    ELSE Err("Incompatible types for division")

\* Value::operator/
ValueDiv(a, b) ==
    IF isNumber(a) /\ isNumber(b)
        THEN IF IsZero(b) THEN Err("Division by zero") ELSE Ok(NumDiv(a, b))
    ELSE IF (isNumber(a) \/ isComplex(a)) /\ (isNumber(b) \/ isComplex(b))
        THEN ComplexDiv(toComplex(a), toComplex(b))
    ELSE IF isVector(a) /\ isNumber(b) THEN VectorDivScalar(a.e, b)
    ELSE IF isMatrix(a) /\ isNumber(b) THEN MatrixDivScalar(a, b)
    ELSE Err("Incompatible types for division")

\* Value::operator- (unary)
ValueNeg(a) ==
    IF isNumber(a) THEN Ok(NumNeg(a))
    ELSE IF isComplex(a) THEN Ok(ComplexNeg(a))
    ELSE IF isVector(a) THEN Ok(Vec(VectorScale(a.e, Num(-1))))
    ELSE IF isMatrix(a) THEN Ok(Mat(a.rows, a.cols, VectorScale(a.e, Num(-1))))
    ELSE Err("Unary minus not supported for this type")

\* Value::pow
ValuePow(a, b) ==
    IF isNumber(a) /\ isNumber(b) THEN Ok(NumPow(a, b))
    ELSE IF (isNumber(a) \/ isComplex(a)) /\ (isNumber(b) \/ isComplex(b))
        THEN Ok(ComplexPow(toComplex(a), toComplex(b)))
    ELSE Err("Incompatible types for power operation")

\* ------------------------------------------------------------------------
\* Tokens (lexer.hpp) and AST nodes (ast.hpp, parser.cpp)
\* ------------------------------------------------------------------------
Token(type, lexeme, value, pos) ==
    [type |-> type, lexeme |-> lexeme, value |-> value, position |-> pos]

NoNode == [t |-> "NONE"]

NumberNode(v) == [t |-> "NUMBER", value |-> v]

ComplexLiteralNode(imag) == [t |-> "COMPLEX_LITERAL", real |-> Num(0), imag |-> imag]

BinaryOpNode(op, l, r) == [t |-> "BINARY_OP", op |-> op, left |-> l, right |-> r]

UnaryOpNode(op, e) == [t |-> "UNARY_OP", op |-> op, operand |-> e]

FunctionCallNode(name, args) == [t |-> "FUNCTION_CALL", name |-> name, args |-> args]

VectorLiteralNode(es) == [t |-> "VECTOR_LITERAL", elements |-> es]

MatrixLiteralNode(rows) == [t |-> "MATRIX_LITERAL", rows |-> rows]

VariableDeclarationNode(name, init) ==
    [t |-> "VARIABLE_DECLARATION", name |-> name, initializer |-> init]

VariableReferenceNode(name) == [t |-> "VARIABLE_REFERENCE", name |-> name]

LambdaNode(params, body) == [t |-> "LAMBDA", params |-> params, body |-> body]

\* ------------------------------------------------------------------------
\* Parser (parser.cpp).  current_ is the 0-based index of the next token.
\* ------------------------------------------------------------------------
POk(n, c) == [ok |-> TRUE, node |-> n, cur |-> c, err |-> "none", info |-> <<>>]

PErr(e, c) == [ok |-> FALSE, node |-> NoNode, cur |-> c, err |-> e, info |-> <<>>]

\* v is computed once and named by K's parameter
With(v, K(_)) == K(v)

\* a sub-parse that threw propagates; otherwise the caller goes on with its result
PThen(r, K(_)) == IF ~r.ok THEN r ELSE K(r)

peek(toks, cur) == toks[cur + 1]

isAtEnd(toks, cur) == peek(toks, cur).type = "END"

check(toks, cur, type) == ~isAtEnd(toks, cur) /\ peek(toks, cur).type = type

checkAny(toks, cur, types) == \E ty \in types : check(toks, cur, ty)

BinOpOf(type) ==
    CASE type = "PLUS" -> "ADD"
      [] type = "MINUS" -> "SUBTRACT"
      [] type = "STAR" -> "MULTIPLY"
      [] type = "SLASH" -> "DIVIDE"
      [] type = "GT" -> "GT"
      [] type = "LT" -> "LT"
      [] type = "GTE" -> "GTE"
      [] type = "LTE" -> "LTE"
      [] type = "EQ" -> "EQ"
      [] type = "NEQ" -> "NEQ"

ComparisonTokens == {"GT", "LT", "GTE", "LTE", "EQ", "NEQ"}

RECURSIVE expression(_, _), comparison(_, _), comparisonLoop(_, _, _)
RECURSIVE additive(_, _), additiveLoop(_, _, _), term(_, _), termLoop(_, _, _)
RECURSIVE factor(_, _), exponent(_, _), primary(_, _)
RECURSIVE parseFunctionCall(_, _, _), parseVectorOrMatrix(_, _)
RECURSIVE expressionList(_, _, _), matrixRows(_, _, _), lambdaParams(_, _, _)

\* do { list.push_back(expression()); } while (match(COMMA));
expressionList(toks, cur, acc) ==
    With(expression(toks, cur),
         LAMBDA e :
             IF ~e.ok THEN [ok |-> FALSE, nodes |-> acc, cur |-> e.cur, err |-> e.err]
             ELSE IF check(toks, e.cur, "COMMA")
                 THEN expressionList(toks, e.cur + 1, Append(acc, e.node))
             ELSE [ok |-> TRUE, nodes |-> Append(acc, e.node), cur |-> e.cur,
                   err |-> "none"])

expression(toks, cur) == comparison(toks, cur)

comparisonLoop(toks, node, cur) ==
    IF checkAny(toks, cur, ComparisonTokens)
    THEN PThen(additive(toks, cur + 1),
               LAMBDA right : comparisonLoop(toks,
                   BinaryOpNode(BinOpOf(peek(toks, cur).type), node, right.node), right.cur))
    ELSE POk(node, cur)

comparison(toks, cur) ==
    PThen(additive(toks, cur), LAMBDA node : comparisonLoop(toks, node.node, node.cur))

additiveLoop(toks, node, cur) ==
    IF checkAny(toks, cur, {"PLUS", "MINUS"})
    THEN PThen(term(toks, cur + 1),
               LAMBDA right : additiveLoop(toks,
                   BinaryOpNode(BinOpOf(peek(toks, cur).type), node, right.node), right.cur))
    ELSE POk(node, cur)

additive(toks, cur) ==
    PThen(term(toks, cur), LAMBDA node : additiveLoop(toks, node.node, node.cur))

termLoop(toks, node, cur) ==
    IF checkAny(toks, cur, {"STAR", "SLASH"})
    THEN PThen(factor(toks, cur + 1),
               LAMBDA right : termLoop(toks,
                   BinaryOpNode(BinOpOf(peek(toks, cur).type), node, right.node), right.cur))
    ELSE POk(node, cur)

term(toks, cur) ==
    PThen(factor(toks, cur), LAMBDA node : termLoop(toks, node.node, node.cur))

\* variant: the right operand of '^' is an exponent, not a factor
factor_flatRightOperand(toks, cur) ==
    PThen(exponent(toks, cur),
          LAMBDA node :
              IF check(toks, node.cur, "CARET")
              THEN PThen(exponent(toks, node.cur + 1),
                         LAMBDA right :
                             POk(BinaryOpNode("POWER", node.node, right.node), right.cur))
              ELSE node)

\* right-associative: the right operand of '^' is a factor
factor(toks, cur) ==
    PThen(exponent(toks, cur),
          LAMBDA node :
              IF check(toks, node.cur, "CARET")
              THEN PThen(factor(toks, node.cur + 1),
                         LAMBDA right :
                             POk(BinaryOpNode("POWER", node.node, right.node), right.cur))
              ELSE node)

exponent(toks, cur) ==
    IF check(toks, cur, "MINUS")
    THEN PThen(exponent(toks, cur + 1),
               LAMBDA operand : POk(UnaryOpNode("NEGATE", operand.node), operand.cur))
    ELSE primary(toks, cur)

parseConstant(name, cur) == POk(VariableReferenceNode(name), cur)

\* cur is at the '(' that follows the function name
parseFunctionCall(toks, name, cur) ==
    IF ~check(toks, cur, "LPAREN") THEN PErr("Expected '(' after function name", cur)
    ELSE With(IF check(toks, cur + 1, "RPAREN")
              THEN [ok |-> TRUE, nodes |-> <<>>, cur |-> cur + 1, err |-> "none"]
              ELSE expressionList(toks, cur + 1, <<>>),
              LAMBDA args :
                  IF ~args.ok THEN PErr(args.err, args.cur)
                  ELSE IF ~check(toks, args.cur, "RPAREN")
                      THEN PErr("Expected ')' after arguments", args.cur)
                  ELSE POk(FunctionCallNode(name, args.nodes), args.cur + 1))

\* the while (match(COMMA)) loop that collects lambda parameters;
\* ok = FALSE is the jump to parse_as_expression
lambdaParams(toks, cur, params) ==
    IF check(toks, cur, "COMMA")
    THEN IF ~check(toks, cur + 1, "IDENTIFIER")
         THEN [ok |-> FALSE, params |-> params, cur |-> cur + 1]
         ELSE lambdaParams(toks, cur + 2, Append(params, peek(toks, cur + 1).lexeme))
    ELSE [ok |-> TRUE, params |-> params, cur |-> cur]

\* the outer do-while of parseVectorOrMatrix: one bracketed row per pass
matrixRows(toks, cur, rows) ==
    IF ~check(toks, cur, "LBRACKET")
    THEN [ok |-> FALSE, rows |-> rows, cur |-> cur, err |-> "Expected '[' for matrix row"]
    ELSE With(IF check(toks, cur + 1, "RBRACKET")
              THEN [ok |-> TRUE, nodes |-> <<>>, cur |-> cur + 1, err |-> "none"]
              ELSE expressionList(toks, cur + 1, <<>>),
              LAMBDA row :
                  IF ~row.ok
                  THEN [ok |-> FALSE, rows |-> rows, cur |-> row.cur, err |-> row.err]
                  ELSE IF ~check(toks, row.cur, "RBRACKET")
                      THEN [ok |-> FALSE, rows |-> rows, cur |-> row.cur,
                            err |-> "Expected ']' after matrix row"]
                  ELSE IF check(toks, row.cur + 1, "COMMA")
                      THEN matrixRows(toks, row.cur + 2, Append(rows, row.nodes))
                  ELSE [ok |-> TRUE, rows |-> Append(rows, row.nodes), cur |-> row.cur + 1,
                        err |-> "none"])

\* variant: the validation loop starts one row too late
validateRows_skipsSecondRow(rows, cur) ==
    LET expectedCols == Len(rows[1])
        bad == {i \in 3..Len(rows) : Len(rows[i]) # expectedCols}
    IN IF bad # {}
       THEN LET i == CHOOSE x \in bad : \A y \in bad : x <= y
            IN [PErr("Matrix rows must have the same number of elements", cur)
                   EXCEPT !.info = <<expectedCols, i - 1, Len(rows[i])>>]
       ELSE POk(MatrixLiteralNode(rows), cur)

\* "Validate that all rows have the same number of columns": the error names
\* the first row (0-based) whose size differs from the first row's, info
\* carries <<expectedCols, row index, row size>>
validateRows(rows, cur) ==
    LET expectedCols == Len(rows[1])
        bad == {i \in 2..Len(rows) : Len(rows[i]) # expectedCols}
    IN IF bad # {}
       THEN LET i == CHOOSE x \in bad : \A y \in bad : x <= y
            IN [PErr("Matrix rows must have the same number of elements", cur)
                   EXCEPT !.info = <<expectedCols, i - 1, Len(rows[i])>>]
       ELSE POk(MatrixLiteralNode(rows), cur)

\* cur is right after the first '['
parseVectorOrMatrix(toks, cur) ==
    IF check(toks, cur, "LBRACKET")
    THEN With(matrixRows(toks, cur, <<>>),
              LAMBDA m :
                  IF ~m.ok THEN PErr(m.err, m.cur)
                  ELSE IF ~check(toks, m.cur, "RBRACKET")
                      THEN PErr("Expected ']' after matrix", m.cur)
                  ELSE validateRows(m.rows, m.cur + 1))
    ELSE With(IF check(toks, cur, "RBRACKET")
              THEN [ok |-> TRUE, nodes |-> <<>>, cur |-> cur, err |-> "none"]
              ELSE expressionList(toks, cur, <<>>),
              LAMBDA elements :
                  IF ~elements.ok THEN PErr(elements.err, elements.cur)
                  ELSE IF ~check(toks, elements.cur, "RBRACKET")
                      THEN PErr("Expected ']' after vector", elements.cur)
                  ELSE POk(VectorLiteralNode(elements.nodes), elements.cur + 1))

\* the tail of primary from the label parse_as_expression on
parseAsExpression(toks, cur) ==
    PThen(expression(toks, cur),
          LAMBDA node :
              IF ~check(toks, node.cur, "RPAREN")
              THEN PErr("Expected ')' after expression", node.cur)
              ELSE IF check(toks, node.cur + 1, "IDENTIFIER")
                  THEN IF peek(toks, node.cur + 1).lexeme = <<"i">>
                       THEN PErr("Complex syntax (expr)i not yet fully supported", node.cur + 2)
                       ELSE POk(node.node, node.cur + 2)
              ELSE POk(node.node, node.cur + 1))

\* variant: the speculative parse leaves the cursor where it stopped
restorePosition_keepsCursor(savedPos, current_) == current_

\* "current_ = savedPos;" after a failed lambda lookahead
restorePosition(savedPos, current_) == savedPos

primary(toks, cur) ==
    IF check(toks, cur, "NUMBER")
    THEN LET value == peek(toks, cur).value
         IN IF check(toks, cur + 1, "IDENTIFIER")
            THEN IF peek(toks, cur + 1).lexeme = <<"i">>
                 THEN POk(ComplexLiteralNode(value), cur + 2)
                 ELSE POk(NumberNode(value), cur + 2)
            ELSE POk(NumberNode(value), cur + 1)
    ELSE IF check(toks, cur, "IDENTIFIER")
    THEN LET name == peek(toks, cur).lexeme
         IN IF name = <<"i">> THEN POk(ComplexLiteralNode(Num(1)), cur + 1)
            ELSE IF check(toks, cur + 1, "ARROW")
                THEN PThen(expression(toks, cur + 2),
                           LAMBDA body : POk(LambdaNode(<<name>>, body.node), body.cur))
            ELSE IF check(toks, cur + 1, "LPAREN") THEN parseFunctionCall(toks, name, cur + 1)
            ELSE parseConstant(name, cur + 1)
    ELSE IF check(toks, cur, "LPAREN")
    THEN LET savedPos == cur + 1
         IN IF check(toks, savedPos, "IDENTIFIER")
            THEN With(lambdaParams(toks, savedPos + 1, <<peek(toks, savedPos).lexeme>>),
                      LAMBDA ps :
                          IF ps.ok /\ check(toks, ps.cur, "RPAREN")
                                   /\ check(toks, ps.cur + 1, "ARROW")
                          THEN PThen(expression(toks, ps.cur + 2),
                                     LAMBDA body :
                                         POk(LambdaNode(ps.params, body.node), body.cur))
                          ELSE parseAsExpression(toks,
                                   restorePosition(savedPos,
                                       IF ps.ok /\ check(toks, ps.cur, "RPAREN")
                                       THEN ps.cur + 1 ELSE ps.cur)))
            ELSE parseAsExpression(toks, savedPos)
    ELSE IF check(toks, cur, "LBRACKET") THEN parseVectorOrMatrix(toks, cur + 1)
    ELSE PErr("Expected expression", cur)

statement(toks, cur) ==
    IF check(toks, cur, "LET")
    THEN IF ~check(toks, cur + 1, "IDENTIFIER")
         THEN PErr("Expected variable name after 'let'", cur + 1)
         ELSE LET name == peek(toks, cur + 1).lexeme
              IN IF ~check(toks, cur + 2, "ASSIGN")
                 THEN PErr("Expected '=' after variable name", cur + 2)
                 ELSE PThen(expression(toks, cur + 3),
                            LAMBDA initializer :
                                POk(VariableDeclarationNode(name, initializer.node),
                                    initializer.cur))
    ELSE expression(toks, cur)

\* Parser::parse
parse(toks) == statement(toks, 0)

\* ------------------------------------------------------------------------
\* Identifiers, std::tolower, ConstantsRegistry (constants.cpp)
\* ------------------------------------------------------------------------
UpperChars == <<"A", "B", "C", "D", "E", "F", "G", "H", "I", "J", "K", "L", "M",
                "N", "O", "P", "Q", "R", "S", "T", "U", "V", "W", "X", "Y", "Z">>

LowerChars == <<"a", "b", "c", "d", "e", "f", "g", "h", "i", "j", "k", "l", "m",
                "n", "o", "p", "q", "r", "s", "t", "u", "v", "w", "x", "y", "z">>

tolower(c) ==
    IF \E i \in 1..Len(UpperChars) : UpperChars[i] = c
    THEN LowerChars[CHOOSE i \in 1..Len(UpperChars) : UpperChars[i] = c]
    ELSE c

toLower(str) == [i \in 1..Len(str) |-> tolower(str[i])]

\* rationals standing for the double constants of constants.hpp
PI == Rat(355, 113)

E == Rat(193, 71)

PHI == Rat(377, 233)

SQRT2 == Rat(577, 408)

SQRT3 == Rat(97, 56)

LN2 == Rat(61, 88)

LN10 == Rat(175, 76)

constants_ ==
    (<<"p", "i">> :> PI) @@ (<<"e">> :> E) @@ (<<"p", "h", "i">> :> PHI)
    @@ (<<"s", "q", "r", "t", "2">> :> SQRT2) @@ (<<"s", "q", "r", "t", "3">> :> SQRT3)
    @@ (<<"l", "n", "2">> :> LN2) @@ (<<"l", "n", "1", "0">> :> LN10)
    @@ (<<"g", "o", "l", "d", "e", "n", "r", "a", "t", "i", "o">> :> PHI)

hasConstant(name) == toLower(name) \in DOMAIN constants_

getConstant(name) == constants_[toLower(name)]

\* ------------------------------------------------------------------------
\* Environment (environment.hpp): a map from names to Values
\* ------------------------------------------------------------------------
EmptyEnv == [n \in {} |-> NoVal]

EnvOk(env) == [ok |-> TRUE, env |-> env, err |-> "none"]

EnvErr(env, e) == [ok |-> FALSE, env |-> env, err |-> e]

has(env, name) == name \in DOMAIN env

get(env, name) == IF has(env, name) THEN Ok(env[name]) ELSE Err("Undefined variable")

define(env, name, value) ==
    IF name \in DOMAIN env THEN EnvErr(env, "Variable already declared")
    ELSE EnvOk((name :> value) @@ env)

set(env, name, value) ==
    IF name \notin DOMAIN env THEN EnvErr(env, "Cannot assign to undefined variable")
    ELSE EnvOk([env EXCEPT ![name] = value])

clear(env) == EmptyEnv

\* ------------------------------------------------------------------------
\* FunctionRegistry (functions.cpp): the entries the model covers
\* ------------------------------------------------------------------------
N_sin == <<"s", "i", "n">>

N_abs == <<"a", "b", "s">>

N_max == <<"m", "a", "x">>

N_sum == <<"s", "u", "m">>

N_vadd == <<"v", "a", "d", "d">>

N_vsub == <<"v", "s", "u", "b">>

N_vmul == <<"v", "m", "u", "l">>

N_vdiv == <<"v", "d", "i", "v">>

N_map == <<"m", "a", "p">>

N_filter == <<"f", "i", "l", "t", "e", "r">>

N_reduce == <<"r", "e", "d", "u", "c", "e">>

N_pipe == <<"p", "i", "p", "e">>

functions_ ==
    (N_sin :> 1) @@ (N_abs :> 1) @@ (N_max :> -1) @@ (N_sum :> 1)
    @@ (N_vadd :> 2) @@ (N_vsub :> 2) @@ (N_vmul :> 2) @@ (N_vdiv :> 2)
    @@ (N_map :> -1) @@ (N_filter :> 2) @@ (N_reduce :> 3) @@ (N_pipe :> -1)

hasFunction(name) == toLower(name) \in DOMAIN functions_

getArity(name) == functions_[toLower(name)]

\* ------------------------------------------------------------------------
\* Evaluator (evaluator.cpp) and the built-in callables it invokes.
\* S is the state a walk reads and writes: env (Evaluator::env_), cur (the
\* thread-local currentEvaluator_), self (the Evaluator doing the walk) and
\* log (a record of the lambda bodies entered and built-ins invoked).
\* ast names the retained AST that owns the node being evaluated.
\* ------------------------------------------------------------------------
Function(params, body, ast, closure) ==
    [k |-> "fn", params |-> params, body |-> body, ast |-> ast, closure |-> closure]

EOk(v, S) == [ok |-> TRUE, val |-> v, err |-> "none", S |-> S]

EErr(e, S) == [ok |-> FALSE, val |-> NoVal, err |-> e, S |-> S]

\* an evaluation that threw propagates; otherwise the caller goes on with its result
EThen(r, K(_)) == IF ~r.ok THEN r ELSE K(r)

Lift(r, S) == [ok |-> r.ok, val |-> r.val, err |-> r.err, S |-> S]

Logged(S, event) == [S EXCEPT !.log = Append(@, event)]

BoolNum(b) == IF b THEN Num(1) ELSE Num(0)

\* the six comparison cases of evaluateBinaryOp
Compare(op, l, r) ==
    IF ~isNumber(l) \/ ~isNumber(r)
    THEN Err("Comparison operators currently only support numbers")
    ELSE IF IsNaR(l) \/ IsNaR(r) THEN Ok(NaR)
    ELSE CASE op = "GT" -> Ok(BoolNum(NumLess(r, l)))
           [] op = "LT" -> Ok(BoolNum(NumLess(l, r)))
           [] op = "GTE" -> Ok(BoolNum(~NumLess(l, r)))
           [] op = "LTE" -> Ok(BoolNum(~NumLess(r, l)))
           [] op = "EQ" -> Ok(BoolNum(l = r))
           [] op = "NEQ" -> Ok(BoolNum(l # r))

ApplyBinaryOp(op, l, r) ==
    CASE op = "ADD" -> ValueAdd(l, r)
      [] op = "SUBTRACT" -> ValueSub(l, r)
      [] op = "MULTIPLY" -> ValueMul(l, r)
      [] op = "DIVIDE" -> ValueDiv(l, r)
      [] op = "POWER" -> ValuePow(l, r)
      [] OTHER -> Compare(op, l, r)

RECURSIVE SumSeq(_, _)
SumSeq(es, i) == IF i = 0 THEN Num(0) ELSE NumAdd(SumSeq(es, i - 1), es[i])

RECURSIVE MaxSeq(_, _)
MaxSeq(es, i) ==
    IF i = 1 THEN es[1]
    ELSE LET m == MaxSeq(es, i - 1) IN IF NumLess(m, es[i]) THEN es[i] ELSE m

\* vadd / vsub / vmul / vdiv of functions.cpp
VectorZip(name, args) ==
    IF ~isVector(args[1]) \/ ~isVector(args[2]) THEN Err("Value is not a vector")
    ELSE LET v1 == args[1].e
             v2 == args[2].e
         IN IF Len(v1) # Len(v2) THEN Err("requires vectors of same size")
            ELSE IF name = N_vdiv /\ \E i \in 1..Len(v2) : IsZero(v2[i])
                THEN Err("vdiv() division by zero")
            ELSE Ok(Vec([i \in 1..Len(v1) |->
                    CASE name = N_vadd -> NumAdd(v1[i], v2[i])
                      [] name = N_vsub -> NumSub(v1[i], v2[i])
                      [] name = N_vmul -> NumMul(v1[i], v2[i])
                      [] name = N_vdiv -> NumDiv(v1[i], v2[i])]))

\* the callables that do not call back into the evaluator
NativeCall(name, args) ==
    CASE name = N_sin ->
            IF ~isNumber(args[1]) THEN Err("Value is not a number")
            ELSE Ok(IF IsZero(args[1]) THEN Num(0) ELSE NaR)
      [] name = N_abs ->
            IF isComplex(args[1])
            THEN Ok(IF IsZero(args[1].im) THEN Rat(Abs(args[1].re.n), args[1].re.d)
                    ELSE IF IsZero(args[1].re) THEN Rat(Abs(args[1].im.n), args[1].im.d)
                    ELSE NaR)
            ELSE IF ~isNumber(args[1]) THEN Err("Value is not a number")
            ELSE Ok(Rat(Abs(args[1].n), args[1].d))
      [] name = N_sum ->
            IF isVector(args[1]) THEN Ok(SumSeq(args[1].e, Len(args[1].e)))
            ELSE Err("sum() requires a vector argument")
      [] name = N_max ->
            IF Len(args) = 0 THEN Err("max() requires at least one argument")
            ELSE IF Len(args) = 1 /\ isVector(args[1])
                THEN IF Len(args[1].e) = 0 THEN Err("max() requires non-empty vector")
                     ELSE Ok(MaxSeq(args[1].e, Len(args[1].e)))
            ELSE IF \E i \in 1..Len(args) : ~isNumber(args[i]) THEN Err("Value is not a number")
            ELSE Ok(MaxSeq(args, Len(args)))
      [] name \in {N_vadd, N_vsub, N_vmul, N_vdiv} -> VectorZip(name, args)

MinLength(args) ==
    CHOOSE m \in {Len(args[i].e) : i \in 2..Len(args)} :
        \A i \in 2..Len(args) : m <= Len(args[i].e)

RECURSIVE evaluate(_, _, _, _), evaluateNode(_, _, _, _)
RECURSIVE evaluateArgs(_, _, _, _, _), evaluateElements(_, _, _, _, _, _)
RECURSIVE evaluateRows(_, _, _, _, _, _)
RECURSIVE evaluateFunctionCall(_, _, _, _), applyFunction(_, _, _, _)
RECURSIVE bindParams(_, _, _, _)
RECURSIVE BuiltinCall(_, _, _, _)
RECURSIVE mapLoop(_, _, _, _, _, _), filterLoop(_, _, _, _, _, _)
RECURSIVE reduceLoop(_, _, _, _, _, _), pipeLoop(_, _, _, _, _)

\* for (i < params.size()) callEnv.define(params[i], args[i]);
bindParams(callEnv, params, args, i) ==
    IF i > Len(params) THEN EnvOk(callEnv)
    ELSE EThen(define(callEnv, params[i], args[i]),
               LAMBDA d : bindParams(d.env, params, args, i + 1))

\* variant: the call environment is left in place after the body returned
applyFunction_keepsCallEnv(func, args, S, depth) ==
    IF Len(args) # Len(func.params) THEN EErr("Function expects N arguments", S)
    ELSE With(bindParams(func.closure, func.params, args, 1),
              LAMBDA callEnv :
                  IF ~callEnv.ok THEN EErr(callEnv.err, S)
                  ELSE evaluate(func.body,
                                Logged([S EXCEPT !.env = callEnv.env], <<"body", func.params, args>>),
                                func.ast, depth + 1))

\* variant: the body sees the caller's live environment under the closure
applyFunction_liveEnv(func, args, S, depth) ==
    IF Len(args) # Len(func.params) THEN EErr("Function expects N arguments", S)
    ELSE With(bindParams(func.closure @@ S.env, func.params, args, 1),
              LAMBDA callEnv :
                  IF ~callEnv.ok THEN EErr(callEnv.err, S)
                  ELSE LET savedEnv == S.env
                           S1 == Logged([S EXCEPT !.env = callEnv.env],
                                        <<"body", func.params, args>>)
                       IN EThen(evaluate(func.body, S1, func.ast, depth + 1),
                                LAMBDA result : [result EXCEPT !.S.env = savedEnv]))

applyFunction(func, args, S, depth) ==
    IF Len(args) # Len(func.params) THEN EErr("Function expects N arguments", S)
    ELSE With(bindParams(func.closure, func.params, args, 1),
              LAMBDA callEnv :
                  IF ~callEnv.ok THEN EErr(callEnv.err, S)
                  ELSE LET savedEnv == S.env
                           S1 == Logged([S EXCEPT !.env = callEnv.env],
                                        <<"body", func.params, args>>)
                       IN \* env_ = savedEnv is skipped when the body throws
                          EThen(evaluate(func.body, S1, func.ast, depth + 1),
                                LAMBDA result : [result EXCEPT !.S.env = savedEnv]))

\* variant: each result is put in front of the earlier ones
mapLoop_prepends(func, args, i, results, S, depth) ==
    IF i > MinLength(args) THEN EOk(Vec(results), S)
    ELSE LET funcArgs == [c \in 1..(Len(args) - 1) |-> args[c + 1].e[i]]
         IN EThen(applyFunction(func, funcArgs, S, depth),
                  LAMBDA result :
                      IF ~isNumber(result.val)
                      THEN EErr("map function must return numbers", result.S)
                      ELSE mapLoop(func, args, i + 1, <<result.val>> \o results,
                                   result.S, depth))

mapLoop(func, args, i, results, S, depth) ==
    IF i > MinLength(args) THEN EOk(Vec(results), S)
    ELSE LET funcArgs == [c \in 1..(Len(args) - 1) |-> args[c + 1].e[i]]
         IN EThen(applyFunction(func, funcArgs, S, depth),
                  LAMBDA result :
                      IF ~isNumber(result.val)
                      THEN EErr("map function must return numbers", result.S)
                      ELSE mapLoop(func, args, i + 1, Append(results, result.val),
                                   result.S, depth))

\* variant: the predicate's result is kept in place of the element
filterLoop_keepsResult(predicate, collection, i, results, S, depth) ==
    IF i > Len(collection) THEN EOk(Vec(results), S)
    ELSE EThen(applyFunction(predicate, <<collection[i]>>, S, depth),
               LAMBDA result :
                   IF ~isNumber(result.val)
                   THEN EErr("filter predicate must return a number", result.S)
                   ELSE filterLoop(predicate, collection, i + 1,
                                   IF ~IsZero(result.val) THEN Append(results, result.val)
                                   ELSE results,
                                   result.S, depth))

filterLoop(predicate, collection, i, results, S, depth) ==
    IF i > Len(collection) THEN EOk(Vec(results), S)
    ELSE EThen(applyFunction(predicate, <<collection[i]>>, S, depth),
               LAMBDA result :
                   IF ~isNumber(result.val)
                   THEN EErr("filter predicate must return a number", result.S)
                   ELSE filterLoop(predicate, collection, i + 1,
                                   IF ~IsZero(result.val) THEN Append(results, collection[i])
                                   ELSE results,
                                   result.S, depth))

\* variant: the element is passed first and the accumulator second
reduceLoop_elementFirst(func, collection, i, accumulator, S, depth) ==
    IF i > Len(collection) THEN EOk(accumulator, S)
    ELSE EThen(applyFunction(func, <<collection[i], accumulator>>, S, depth),
               LAMBDA result :
                   IF ~isNumber(result.val)
                   THEN EErr("reduce function must return a number", result.S)
                   ELSE reduceLoop(func, collection, i + 1, result.val, result.S, depth))

reduceLoop(func, collection, i, accumulator, S, depth) ==
    IF i > Len(collection) THEN EOk(accumulator, S)
    ELSE EThen(applyFunction(func, <<accumulator, collection[i]>>, S, depth),
               LAMBDA result :
                   IF ~isNumber(result.val)
                   THEN EErr("reduce function must return a number", result.S)
                   ELSE reduceLoop(func, collection, i + 1, result.val, result.S, depth))

pipeLoop(args, i, result, S, depth) ==
    IF i > Len(args) THEN EOk(result, S)
    ELSE IF ~isFunction(args[i]) THEN EErr("pipe arguments after the first must be functions", S)
    ELSE IF Len(args[i].params) # 1 THEN EErr("pipe only supports unary functions", S)
    ELSE EThen(applyFunction(args[i], <<result>>, S, depth),
               LAMBDA r : pipeLoop(args, i + 1, r.val, r.S, depth))

mapFunction(args, S, depth) ==
    IF Len(args) < 2 THEN EErr("map requires at least 2 arguments", S)
    ELSE IF ~isFunction(args[1]) THEN EErr("First argument to map must be a function", S)
    ELSE IF \E i \in 2..Len(args) : ~isVector(args[i])
        THEN EErr("map arguments must be vectors", S)
    ELSE IF Len(args[1].params) # Len(args) - 1
        THEN EErr("Function arity must match number of collections", S)
    ELSE IF S.cur = "null" THEN EErr("No evaluator available for map", S)
    ELSE mapLoop(args[1], args, 1, <<>>, S, depth)

filterFunction(args, S, depth) ==
    IF Len(args) # 2 THEN EErr("filter requires 2 arguments", S)
    ELSE IF ~isFunction(args[1]) THEN EErr("First argument to filter must be a function", S)
    ELSE IF ~isVector(args[2]) THEN EErr("Second argument to filter must be a vector", S)
    ELSE IF Len(args[1].params) # 1
        THEN EErr("filter predicate must take exactly 1 argument", S)
    ELSE IF S.cur = "null" THEN EErr("No evaluator available for filter", S)
    ELSE filterLoop(args[1], args[2].e, 1, <<>>, S, depth)

reduceFunction(args, S, depth) ==
    IF Len(args) # 3 THEN EErr("reduce requires 3 arguments", S)
    ELSE IF ~isFunction(args[1]) THEN EErr("First argument to reduce must be a function", S)
    ELSE IF ~isNumber(args[2]) THEN EErr("reduce initial value must be a number", S)
    ELSE IF ~isVector(args[3]) THEN EErr("Third argument to reduce must be a vector", S)
    ELSE IF Len(args[1].params) # 2
        THEN EErr("reduce function must take exactly 2 arguments", S)
    ELSE IF S.cur = "null" THEN EErr("No evaluator available for reduce", S)
    ELSE reduceLoop(args[1], args[3].e, 1, args[2], S, depth)

pipeFunction(args, S, depth) ==
    IF Len(args) < 2 THEN EErr("pipe requires at least 2 arguments", S)
    ELSE IF S.cur = "null" THEN EErr("No evaluator available for pipe", S)
    ELSE pipeLoop(args, 2, args[1], S, depth)

\* func(args) for the callable registered under the lower-case name
BuiltinCall(name, args, S, depth) ==
    LET S1 == Logged(S, <<"builtin", name, args, S.cur>>)
    IN CASE name = N_map -> mapFunction(args, S1, depth)
         [] name = N_filter -> filterFunction(args, S1, depth)
         [] name = N_reduce -> reduceFunction(args, S1, depth)
         [] name = N_pipe -> pipeFunction(args, S1, depth)
         [] OTHER -> Lift(NativeCall(name, args), S1)

\* for (argNode : argNodes) args.push_back(evaluate(argNode));
evaluateArgs(nodes, i, acc, S, x) ==
    IF i > Len(nodes) THEN [ok |-> TRUE, vals |-> acc, err |-> "none", S |-> S]
    ELSE With(evaluate(nodes[i], S, x.ast, x.depth + 1),
              LAMBDA r :
                  IF ~r.ok THEN [ok |-> FALSE, vals |-> acc, err |-> r.err, S |-> r.S]
                  ELSE evaluateArgs(nodes, i + 1, Append(acc, r.val), r.S, x))

\* the element loop of evaluateVectorLiteral and of one matrix row
evaluateElements(nodes, i, acc, S, x, msg) ==
    IF i > Len(nodes) THEN [ok |-> TRUE, vals |-> acc, err |-> "none", S |-> S]
    ELSE With(evaluate(nodes[i], S, x.ast, x.depth + 1),
              LAMBDA r :
                  IF ~r.ok THEN [ok |-> FALSE, vals |-> acc, err |-> r.err, S |-> r.S]
                  ELSE IF ~isNumber(r.val)
                      THEN [ok |-> FALSE, vals |-> acc, err |-> msg, S |-> r.S]
                  ELSE evaluateElements(nodes, i + 1, Append(acc, r.val), r.S, x, msg))

evaluateRows(rows, i, data, S, x, msg) ==
    IF i > Len(rows) THEN [ok |-> TRUE, vals |-> data, err |-> "none", S |-> S]
    ELSE EThen(evaluateElements(rows[i], 1, data, S, x, msg),
               LAMBDA r : evaluateRows(rows, i + 1, r.vals, r.S, x, msg))

\* variant: the built-in arity check only rejects too few arguments
evaluateFunctionCall_tooFewOnly(node, S, ast, depth) ==
    LET name == node.name
        argNodes == node.args
        x == [ast |-> ast, depth |-> depth]
    IN IF Len(argNodes) = 0 /\ hasConstant(name) THEN EOk(getConstant(name), S)
       ELSE IF has(S.env, name) /\ isFunction(S.env[name])
           THEN With(evaluateArgs(argNodes, 1, <<>>, S, x),
                     LAMBDA args :
                         IF ~args.ok THEN EErr(args.err, args.S)
                         ELSE applyFunction(S.env[name], args.vals, args.S, depth))
       ELSE IF ~hasFunction(name) THEN EErr("Unknown function or constant", S)
       ELSE With(evaluateArgs(argNodes, 1, <<>>, S, x),
                 LAMBDA args :
                     LET expectedArity == getArity(name)
                     IN IF ~args.ok THEN EErr(args.err, args.S)
                        ELSE IF expectedArity >= 0 /\ Len(args.vals) < expectedArity
                            THEN EErr("Function expects N arguments", args.S)
                        ELSE BuiltinCall(toLower(name), args.vals, args.S, depth))

evaluateFunctionCall(node, S, ast, depth) ==
    LET name == node.name
        argNodes == node.args
        x == [ast |-> ast, depth |-> depth]
    IN IF Len(argNodes) = 0 /\ hasConstant(name) THEN EOk(getConstant(name), S)
       ELSE IF has(S.env, name) /\ isFunction(S.env[name])
           THEN With(evaluateArgs(argNodes, 1, <<>>, S, x),
                     LAMBDA args :
                         IF ~args.ok THEN EErr(args.err, args.S)
                         ELSE applyFunction(S.env[name], args.vals, args.S, depth))
       ELSE IF ~hasFunction(name) THEN EErr("Unknown function or constant", S)
       ELSE With(evaluateArgs(argNodes, 1, <<>>, S, x),
                 LAMBDA args :
                     LET expectedArity == getArity(name)
                     IN IF ~args.ok THEN EErr(args.err, args.S)
                        ELSE IF expectedArity >= 0 /\ Len(args.vals) # expectedArity
                            THEN EErr("Function expects N arguments", args.S)
                        ELSE BuiltinCall(toLower(name), args.vals, args.S, depth))

evaluateVariableDeclaration(node, S, ast, depth) ==
    EThen(evaluate(node.initializer, S, ast, depth + 1),
          LAMBDA value :
              With(define(value.S.env, node.name, value.val),
                   LAMBDA d :
                       IF ~d.ok THEN EErr(d.err, value.S)
                       ELSE EOk(value.val, [value.S EXCEPT !.env = d.env])))

\* variant: constants are looked up before the environment
evaluateVariableReference_constantFirst(node, S) ==
    IF hasConstant(node.name) THEN EOk(getConstant(node.name), S)
    ELSE IF has(S.env, node.name) THEN EOk(S.env[node.name], S)
    ELSE EErr("Undefined variable or constant", S)

evaluateVariableReference(node, S) ==
    IF has(S.env, node.name) THEN EOk(S.env[node.name], S)
    ELSE IF hasConstant(node.name) THEN EOk(getConstant(node.name), S)
    ELSE EErr("Undefined variable or constant", S)

evaluateLambda(node, S, ast) == EOk(Function(node.params, node.body, ast, S.env), S)

evaluateBinaryOp(node, S, ast, depth) ==
    EThen(evaluate(node.left, S, ast, depth + 1),
          LAMBDA left :
              EThen(evaluate(node.right, left.S, ast, depth + 1),
                    LAMBDA right :
                        Lift(ApplyBinaryOp(node.op, left.val, right.val), right.S)))

evaluateUnaryOp(node, S, ast, depth) ==
    EThen(evaluate(node.operand, S, ast, depth + 1),
          LAMBDA operand : Lift(ValueNeg(operand.val), operand.S))

evaluateVectorLiteral(node, S, ast, depth) ==
    With(evaluateElements(node.elements, 1, <<>>, S, [ast |-> ast, depth |-> depth],
                          "Vector elements must be numbers"),
         LAMBDA r : IF ~r.ok THEN EErr(r.err, r.S) ELSE EOk(Vec(r.vals), r.S))

evaluateMatrixLiteral(node, S, ast, depth) ==
    IF Len(node.rows) = 0 THEN EErr("Matrix cannot be empty", S)
    ELSE LET numRows == Len(node.rows)
             numCols == Len(node.rows[1])
         IN With(evaluateRows(node.rows, 1, <<>>, S, [ast |-> ast, depth |-> depth],
                              "Matrix elements must be numbers"),
                 LAMBDA r :
                     IF ~r.ok THEN EErr(r.err, r.S)
                     ELSE IF Len(r.vals) # numRows * numCols
                         THEN EErr("Matrix data size mismatch", r.S)
                     ELSE EOk(Mat(numRows, numCols, r.vals), r.S))

evaluateNode(node, S, ast, depth) ==
    CASE node.t = "NUMBER" -> EOk(node.value, S)
      [] node.t = "BINARY_OP" -> evaluateBinaryOp(node, S, ast, depth)
      [] node.t = "UNARY_OP" -> evaluateUnaryOp(node, S, ast, depth)
      [] node.t = "FUNCTION_CALL" -> evaluateFunctionCall(node, S, ast, depth)
      [] node.t = "COMPLEX_LITERAL" -> EOk(Cplx(node.real, node.imag), S)
      [] node.t = "VECTOR_LITERAL" -> evaluateVectorLiteral(node, S, ast, depth)
      [] node.t = "MATRIX_LITERAL" -> evaluateMatrixLiteral(node, S, ast, depth)
      [] node.t = "VARIABLE_DECLARATION" -> evaluateVariableDeclaration(node, S, ast, depth)
      [] node.t = "VARIABLE_REFERENCE" -> evaluateVariableReference(node, S)
      [] node.t = "LAMBDA" -> evaluateLambda(node, S, ast)
      [] OTHER -> EErr("Unknown AST node type", S)

\* variant: the slot is restored on return only, not when the walk throws
evaluate_slotLeftOnThrow(node, S, ast, depth) ==
    IF depth > MaxDepth THEN EErr("stack overflow", S)
    ELSE LET savedEvaluator == S.cur
         IN With(evaluateNode(node, [S EXCEPT !.cur = S.self], ast, depth),
                 LAMBDA result : IF result.ok THEN [result EXCEPT !.S.cur = savedEvaluator]
                                 ELSE result)

\* depth counts the nested evaluate activations; the C++ recursion has no
\* guard, so a walk deeper than MaxDepth is reported as a stack overflow
evaluate(node, S, ast, depth) ==
    IF depth > MaxDepth THEN EErr("stack overflow", S)
    ELSE LET savedEvaluator == S.cur
         IN With(evaluateNode(node, [S EXCEPT !.cur = S.self], ast, depth),
                 LAMBDA result : [result EXCEPT !.S.cur = savedEvaluator])

\* ------------------------------------------------------------------------
\* Lexer (lexer.cpp).  source_ is a sequence of characters, current_ the
\* 0-based offset of the next character.
\* ------------------------------------------------------------------------
DigitChars == <<"0", "1", "2", "3", "4", "5", "6", "7", "8", "9">>

isdigit(c) == \E i \in 1..10 : DigitChars[i] = c

DigitValue(c) == (CHOOSE i \in 1..10 : DigitChars[i] = c) - 1

isalpha(c) == \E i \in 1..26 : LowerChars[i] = c \/ UpperChars[i] = c

isalnum(c) == isalpha(c) \/ isdigit(c)

isspace(c) == c \in {" ", "\t", "\n", "\r"}

NUL == "\\0"

lexPeek(src, cur) == IF cur >= Len(src) THEN NUL ELSE src[cur + 1]

lexPeekNext(src, cur) == IF cur + 1 >= Len(src) THEN NUL ELSE src[cur + 2]

RECURSIVE skipWhitespace(_, _)
skipWhitespace(src, cur) ==
    IF cur < Len(src) /\ isspace(lexPeek(src, cur)) THEN skipWhitespace(src, cur + 1) ELSE cur

\* while (!isAtEnd() && isdigit(peek())) numStr += advance();
RECURSIVE scanDigits(_, _)
scanDigits(src, cur) ==
    IF cur < Len(src) /\ isdigit(lexPeek(src, cur)) THEN scanDigits(src, cur + 1) ELSE cur

RECURSIVE DigitsValue(_, _, _)
DigitsValue(src, from, to) ==
    IF to <= from THEN 0 ELSE 10 * DigitsValue(src, from, to - 1) + DigitValue(src[to])

RECURSIVE Pow10(_)
Pow10(k) == IF k = 0 THEN 1 ELSE 10 * Pow10(k - 1)

\* std::stod on the text source_[a..f) '.'? source_[f+1..g) ('e' sign? source_[x..y))?
stod(src, intFrom, intTo, fracFrom, fracTo, expNeg, expFrom, expTo) ==
    LET fracLen == fracTo - fracFrom
        mantissa == NumAdd(Num(DigitsValue(src, intFrom, intTo)),
                           IF fracLen > 4 THEN NaR
                           ELSE Rat(DigitsValue(src, fracFrom, fracTo), Pow10(fracLen)))
        ex == DigitsValue(src, expFrom, expTo)
        scale == IF ex > 4 THEN NaR
                 ELSE IF expNeg THEN Rat(1, Pow10(ex)) ELSE Num(Pow10(ex))
    IN IF expTo > expFrom THEN NumMul(mantissa, scale) ELSE mantissa

scanNumber(src, start) ==
    LET intTo == scanDigits(src, start)
        hasFrac == lexPeek(src, intTo) = "." /\ isdigit(lexPeekNext(src, intTo))
        fracTo == IF hasFrac THEN scanDigits(src, intTo + 1) ELSE intTo
        hasExp == lexPeek(src, fracTo) \in {"e", "E"}
        hasSign == hasExp /\ lexPeek(src, fracTo + 1) \in {"+", "-"}
        expFrom == IF hasSign THEN fracTo + 2 ELSE IF hasExp THEN fracTo + 1 ELSE fracTo
        expTo == IF hasExp THEN scanDigits(src, expFrom) ELSE fracTo
        numStr == SubSeq(src, start + 1, expTo)
    IN IF intTo = start /\ ~hasFrac
       THEN [ok |-> FALSE, err |-> "stod: no conversion", cur |-> expTo]
       \* a nonzero mantissa with an exponent of 1000 or more is outside double
       ELSE IF DigitsValue(src, expFrom, expTo) >= 1000
               /\ DigitsValue(src, start, intTo) + DigitsValue(src, intTo + 1, fracTo) > 0
       THEN [ok |-> FALSE, err |-> "stod: out of range", cur |-> expTo]
       ELSE [ok |-> TRUE, err |-> "none", cur |-> expTo,
             tok |-> Token("NUMBER", numStr,
                           stod(src, start, intTo, IF hasFrac THEN intTo + 1 ELSE intTo, fracTo,
                                hasSign /\ lexPeek(src, fracTo + 1) = "-", expFrom, expTo),
                           start)]

RECURSIVE scanIdentifierEnd(_, _)
scanIdentifierEnd(src, cur) ==
    IF cur < Len(src) /\ (isalnum(lexPeek(src, cur)) \/ lexPeek(src, cur) = "_")
    THEN scanIdentifierEnd(src, cur + 1) ELSE cur

scanIdentifier(src, start) ==
    LET end == scanIdentifierEnd(src, start)
    IN [ok |-> TRUE, err |-> "none", cur |-> end,
        tok |-> Token("IDENTIFIER", SubSeq(src, start + 1, end), Num(0), start)]

OperatorType(c) ==
    CASE c = "+" -> "PLUS"
      [] c = "-" -> "MINUS"
      [] c = "*" -> "STAR"
      [] c = "/" -> "SLASH"
      [] c = "^" -> "CARET"
      [] c = "(" -> "LPAREN"
      [] c = ")" -> "RPAREN"
      [] c = "," -> "COMMA"
      [] OTHER -> "NONE"

\* variant: the position is read after advance()
scanOperator_positionAfterAdvance(src, pos) ==
    LET c == src[pos + 1]
    IN IF OperatorType(c) = "NONE"
       THEN [ok |-> FALSE, err |-> "Unknown operator", cur |-> pos + 1]
       ELSE [ok |-> TRUE, err |-> "none", cur |-> pos + 1,
             tok |-> Token(OperatorType(c), <<c>>, Num(0), pos + 1)]

scanOperator(src, pos) ==
    LET c == src[pos + 1]
    IN IF OperatorType(c) = "NONE"
       THEN [ok |-> FALSE, err |-> "Unknown operator", cur |-> pos + 1]
       ELSE [ok |-> TRUE, err |-> "none", cur |-> pos + 1,
             tok |-> Token(OperatorType(c), <<c>>, Num(0), pos)]

RECURSIVE tokenizeLoop(_, _, _)
tokenizeLoop(src, cur0, tokens) ==
    LET cur == IF cur0 < Len(src) THEN skipWhitespace(src, cur0) ELSE cur0
        c == lexPeek(src, cur)
        scanned == IF isdigit(c) \/ c = "." THEN scanNumber(src, cur)
                   ELSE IF isalpha(c) \/ c = "_" THEN scanIdentifier(src, cur)
                   ELSE IF c \in {"+", "-", "*", "/", "^", "(", ")", ","}
                       THEN scanOperator(src, cur)
                   ELSE [ok |-> FALSE, err |-> "Unexpected character", cur |-> cur]
    IN IF cur >= Len(src)
       THEN [ok |-> TRUE, err |-> "none", tokens |-> Append(tokens, Token("END", <<>>, Num(0), cur))]
       ELSE IF ~scanned.ok THEN [ok |-> FALSE, err |-> scanned.err, tokens |-> tokens]
       ELSE tokenizeLoop(src, scanned.cur, Append(tokens, scanned.tok))

\* Lexer::tokenize
tokenize(src) == tokenizeLoop(src, 0, <<>>)

\* ------------------------------------------------------------------------
\* Inputs: expression texts for eval, and token vectors for Parser
\* ------------------------------------------------------------------------
K(type) == Token(type, <<>>, Num(0), 0)

N(n) == Token("NUMBER", <<>>, Num(n), 0)

I(name) == Token("IDENTIFIER", name, Num(0), 0)

\* a token vector as a lexer hands it over: positions in order, END last
Stream(items) ==
    [i \in 1..(Len(items) + 1) |->
        IF i <= Len(items) THEN [items[i] EXCEPT !.position = i - 1]
        ELSE Token("END", <<>>, Num(0), Len(items))]

X_let_x_5 == <<"l", "e", "t", " ", "x", " ", "=", " ", "5">>

X_x_plus_10 == <<"x", " ", "+", " ", "1", "0">>

X_arith == <<"2", " ", "+", " ", "3", " ", "*", " ", "4">>

X_div0 == <<"1", " ", "/", " ", "0">>

Texts == {X_let_x_5, X_x_plus_10, X_arith, X_div0}

P_let_x_5 == Stream(<<K("LET"), I(<<"x">>), K("ASSIGN"), N(5)>>)

P_let_x_7 == Stream(<<K("LET"), I(<<"x">>), K("ASSIGN"), N(7)>>)

P_x_plus_10 == Stream(<<I(<<"x">>), K("PLUS"), N(10)>>)

P_let_f == Stream(<<K("LET"), I(<<"f">>), K("ASSIGN"), I(<<"y">>), K("ARROW"), I(<<"y">>), K("SLASH"), N(0)>>)

P_call_f == Stream(<<I(<<"f">>), K("LPAREN"), N(1), K("RPAREN")>>)

P_let_g == Stream(<<K("LET"), I(<<"g">>), K("ASSIGN"), I(<<"y">>), K("ARROW"), I(<<"y">>), K("PLUS"), I(<<"x">>)>>)

P_call_g == Stream(<<I(<<"g">>), K("LPAREN"), N(1), K("RPAREN")>>)

P_call_g2 == Stream(<<I(<<"g">>), K("LPAREN"), N(1), K("COMMA"), N(2), K("RPAREN")>>)

P_let_x_f == Stream(<<K("LET"), I(<<"x">>), K("ASSIGN"), I(<<"f">>), K("LPAREN"), N(1), K("RPAREN")>>)

P_map_f == Stream(<<I(<<"m", "a", "p">>), K("LPAREN"), I(<<"f">>), K("COMMA"), K("LBRACKET"), N(1), K("COMMA"), N(2), K("RBRACKET"), K("RPAREN")>>)

P_sin2 == Stream(<<I(<<"s", "i", "n">>), K("LPAREN"), N(1), K("COMMA"), N(2), K("RPAREN")>>)

P_sin0 == Stream(<<I(<<"s", "i", "n">>), K("LPAREN"), N(0), K("RPAREN")>>)

P_max3 == Stream(<<I(<<"m", "a", "x">>), K("LPAREN"), N(1), K("COMMA"), N(3), K("COMMA"), N(2), K("RPAREN")>>)

P_let_pi == Stream(<<K("LET"), I(<<"p", "i">>), K("ASSIGN"), I(<<"y">>), K("ARROW"), I(<<"y">>)>>)

P_call_pi == Stream(<<I(<<"p", "i">>), K("LPAREN"), K("RPAREN")>>)

P_ref_PI == Stream(<<I(<<"P", "i">>)>>)

P_paren == Stream(<<K("LPAREN"), N(1)>>)

P_let_w == Stream(<<K("LET"), I(<<"w">>), K("ASSIGN"), I(<<"h">>), K("ARROW"), I(<<"h">>), K("LPAREN"), I(<<"h">>), K("RPAREN")>>)

P_call_w == Stream(<<I(<<"w">>), K("LPAREN"), I(<<"w">>), K("RPAREN")>>)

TokenPrograms == {P_let_x_5, P_let_x_7, P_x_plus_10, P_let_f, P_call_f,
                  P_let_g, P_call_g, P_call_g2, P_let_x_f, P_map_f,
                  P_sin2, P_sin0, P_max3, P_let_pi, P_call_pi, P_ref_PI,
                  P_paren, P_let_w, P_call_w}

VarNames == {<<"v">>, <<"f">>}

Buffers == {<<Num(1), Num(0)>>}

\* ------------------------------------------------------------------------
\* The persistent-session host (bindings/main.cpp, bindings/fast_ops.cpp)
\* ------------------------------------------------------------------------
VARIABLES env_, savedASTs_, currentEvaluator_, values_, nextHandle_, last, steps, probe

vars == <<env_, savedASTs_, currentEvaluator_, values_, nextHandle_, last, steps, probe>>

host == <<env_, savedASTs_, currentEvaluator_, values_, nextHandle_, last, steps>>

NoProbe == [kind |-> "none"]

Outcome(op, input, ok, val, err, log) ==
    [op |-> op, input |-> input, ok |-> ok, val |-> val, err |-> err, log |-> log,
     envBefore |-> env_, ast |-> NoNode]

HostInit ==
    /\ env_ = EmptyEnv
    /\ savedASTs_ = <<>>
    /\ currentEvaluator_ = "null"
    /\ values_ = [h \in {} |-> NoVal]
    /\ nextHandle_ = 1
    /\ last = [op |-> "init", input |-> <<>>, ok |-> TRUE, val |-> NoVal, err |-> "none",
               log |-> <<>>, envBefore |-> EmptyEnv, ast |-> NoNode]
    /\ steps = 0

Init == HostInit /\ probe = NoProbe

\* static Evaluator globalEvaluator, seen as the evaluator state a call starts from
globalEvaluator(env) ==
    [env |-> env, cur |-> currentEvaluator_, self |-> "globalEvaluator", log |-> <<>>]

\* Evaluator::evaluateAndSave followed by the return or the catch of eval
evaluateAndSave(op, input, ast) ==
    LET S == globalEvaluator(env_)
    IN \E result \in {evaluate(ast, S, Len(savedASTs_) + 1, 0)} :
          /\ savedASTs_' = Append(savedASTs_, ast)
          /\ env_' = result.S.env
          /\ currentEvaluator_' = result.S.cur
          /\ last' = [Outcome(op, input, result.ok, result.val, result.err, result.S.log)
                          EXCEPT !.ast = ast]

\* eval from "Parser parser(tokens)" on
parseAndEvaluate(op, input, tokens) ==
    \E ast \in {parse(tokens)} :
       IF ~ast.ok
       THEN /\ last' = Outcome(op, input, FALSE, NoVal, ast.err, <<>>)
            /\ UNCHANGED <<env_, savedASTs_, currentEvaluator_>>
       ELSE evaluateAndSave(op, input, ast.node)

\* std::string eval(const std::string& expression)
eval(text) ==
    /\ steps < MaxEvals
    /\ steps' = steps + 1
    /\ \E tokens \in {tokenize(text)} :
          IF ~tokens.ok
          THEN /\ last' = Outcome("eval", text, FALSE, NoVal, tokens.err, <<>>)
               /\ UNCHANGED <<env_, savedASTs_, currentEvaluator_>>
          ELSE parseAndEvaluate("eval", text, tokens.tokens)
    /\ UNCHANGED <<values_, nextHandle_, probe>>

\* the parser and evaluator stages of eval on a token vector
evalTokens(tokens) ==
    /\ steps < MaxEvals
    /\ steps' = steps + 1
    /\ parseAndEvaluate("evalTokens", tokens, tokens)
    /\ UNCHANGED <<values_, nextHandle_, probe>>

\* variant: reset also drops the retained ASTs
reset_releasesASTs ==
    /\ steps < MaxEvals
    /\ steps' = steps + 1
    /\ env_' = clear(env_)
    /\ savedASTs_' = <<>>
    /\ last' = Outcome("reset", <<>>, TRUE, NoVal, "none", <<>>)
    /\ UNCHANGED <<currentEvaluator_, values_, nextHandle_, probe>>

reset ==
    /\ steps < MaxEvals
    /\ steps' = steps + 1
    /\ env_' = clear(env_)
    /\ last' = Outcome("reset", <<>>, TRUE, NoVal, "none", <<>>)
    /\ UNCHANGED <<savedASTs_, currentEvaluator_, values_, nextHandle_, probe>>

\* HandleManager::create
create(value) == [handle |-> nextHandle_, values |-> (nextHandle_ :> value) @@ values_]

createVectorFromBuffer(data) ==
    /\ steps < MaxEvals
    /\ nextHandle_ <= MaxHandles
    /\ steps' = steps + 1
    /\ values_' = create(Vec(data)).values
    /\ nextHandle_' = nextHandle_ + 1
    /\ last' = Outcome("createVectorFromBuffer", data, TRUE, Num(nextHandle_), "none", <<>>)
    /\ UNCHANGED <<env_, savedASTs_, currentEvaluator_, probe>>

releaseHandle(handle) ==
    /\ steps < MaxEvals
    /\ steps' = steps + 1
    /\ values_' = [h \in DOMAIN values_ \ {handle} |-> values_[h]]
    /\ last' = Outcome("releaseHandle", handle, TRUE, NoVal, "none", <<>>)
    /\ UNCHANGED <<env_, savedASTs_, currentEvaluator_, nextHandle_, probe>>

bindVariableToHandle(varName, handle) ==
    /\ steps < MaxEvals
    /\ steps' = steps + 1
    /\ IF handle \notin DOMAIN values_
       THEN /\ last' = Outcome("bindVariableToHandle", varName, FALSE, NoVal, "Invalid handle", <<>>)
            /\ UNCHANGED env_
       ELSE \E d \in {define(env_, varName, values_[handle])} :
               /\ env_' = d.env
               /\ last' = Outcome("bindVariableToHandle", varName, d.ok, NoVal, d.err, <<>>)
    /\ UNCHANGED <<savedASTs_, currentEvaluator_, values_, nextHandle_, probe>>

createHandleFromVariable(varName) ==
    /\ steps < MaxEvals
    /\ has(env_, varName) => nextHandle_ <= MaxHandles
    /\ steps' = steps + 1
    /\ IF ~has(env_, varName)
       THEN /\ last' = Outcome("createHandleFromVariable", varName, FALSE, NoVal,
                               "Variable not found", <<>>)
            /\ UNCHANGED <<values_, nextHandle_, probe>>
       ELSE /\ values_' = create(env_[varName]).values
            /\ nextHandle_' = nextHandle_ + 1
            /\ last' = Outcome("createHandleFromVariable", varName, TRUE, Num(nextHandle_),
                               "none", <<>>)
    /\ UNCHANGED <<env_, savedASTs_, currentEvaluator_, probe>>

Next ==
    \/ \E text \in Texts : eval(text)
    \/ \E tokens \in TokenPrograms : evalTokens(tokens)
    \/ reset
    \/ \E data \in Buffers : createVectorFromBuffer(data)
    \/ \E handle \in 1..MaxHandles : releaseHandle(handle)
    \/ \E varName \in VarNames, handle \in 1..MaxHandles : bindVariableToHandle(varName, handle)
    \/ \E varName \in VarNames : createHandleFromVariable(varName)

Spec == Init /\ [][Next]_vars

\* ------------------------------------------------------------------------
\* The stateless host (bindings/main_stateless_backup.cpp) on bounded inputs,
\* and the value operators on bounded operands
\* ------------------------------------------------------------------------
Operators == {"PLUS", "MINUS", "STAR", "SLASH", "CARET"}

ArithmeticTokens == {N(2), N(3)} \cup {K(o) : o \in Operators}

\* every token sequence of up to maxLen numbers and operators
ArithmeticStreams(maxLen) ==
    {Stream(items) : items \in UNION {[1..n -> ArithmeticTokens] : n \in 1..maxLen}}

\* ( a o1 b ) o2 c  and  a o1 ( b o2 c )
ParenthesizedStreams ==
    UNION {{Stream(<<K("LPAREN"), N(a), K(o1), N(b), K("RPAREN"), K(o2), N(c)>>),
            Stream(<<N(a), K(o1), K("LPAREN"), N(b), K(o2), N(c), K("RPAREN")>>)} :
           a \in {2, 3}, b \in {2, 3}, c \in {2, 3}, o1 \in Operators, o2 \in Operators}

E_2_plus_3_times_4 == Stream(<<N(2), K("PLUS"), N(3), K("STAR"), N(4)>>)

E_2_pow_3_pow_2 == Stream(<<N(2), K("CARET"), N(3), K("CARET"), N(2)>>)

E_neg_neg_5 == Stream(<<K("MINUS"), K("MINUS"), N(5)>>)

E_paren_2_plus_3_times_4 ==
    Stream(<<K("LPAREN"), N(2), K("PLUS"), N(3), K("RPAREN"), K("STAR"), N(4)>>)

E_10_minus_6_div_2 == Stream(<<N(10), K("MINUS"), N(6), K("SLASH"), N(2)>>)

E_nested_parens ==
    Stream(<<K("LPAREN"), K("LPAREN"), N(2), K("PLUS"), N(3), K("RPAREN"), K("STAR"), N(4),
             K("RPAREN")>>)

E_2_div_paren_2_minus_2 ==
    Stream(<<N(2), K("SLASH"), K("LPAREN"), N(2), K("MINUS"), N(2), K("RPAREN")>>)

ExampleStreams ==
    {E_2_plus_3_times_4, E_2_pow_3_pow_2, E_neg_neg_5, E_paren_2_plus_3_times_4,
     E_10_minus_6_div_2, E_nested_parens, E_2_div_paren_2_minus_2}

RECURSIVE RowItems(_, _)
RowItems(n, first) ==
    IF n = 0 THEN <<>>
    ELSE IF n = 1 THEN <<N(first)>>
    ELSE <<N(first), K("COMMA")>> \o RowItems(n - 1, first + 1)

\* the tokens of [[..], [..], ..] with shape[i] elements in row i
RECURSIVE MatrixRowsItems(_, _)
MatrixRowsItems(shape, i) ==
    IF i > Len(shape) THEN <<>>
    ELSE (IF i > 1 THEN <<K("COMMA")>> ELSE <<>>)
         \o <<K("LBRACKET")>> \o RowItems(shape[i], 10 * i) \o <<K("RBRACKET")>>
         \o MatrixRowsItems(shape, i + 1)

MatrixItems(shape) == <<K("LBRACKET")>> \o MatrixRowsItems(shape, 1) \o <<K("RBRACKET")>>

Shapes == UNION {[1..n -> 0..MaxCols] : n \in 1..MaxRows}

MatrixStreams ==
    {Stream(MatrixItems(shape)) : shape \in Shapes}
    \cup {Stream(<<K("MINUS")>> \o MatrixItems(shape)) : shape \in Shapes}

\* lambdas, collections and seeds for the calls of map, filter and reduce
L_double == <<I(<<"x">>), K("ARROW"), I(<<"x">>), K("STAR"), N(2)>>

L_add ==
    <<K("LPAREN"), I(<<"a">>), K("COMMA"), I(<<"b">>), K("RPAREN"), K("ARROW"),
      I(<<"a">>), K("PLUS"), I(<<"b">>)>>

L_sub ==
    <<K("LPAREN"), I(<<"a">>), K("COMMA"), I(<<"b">>), K("RPAREN"), K("ARROW"),
      I(<<"a">>), K("MINUS"), I(<<"b">>)>>

L_gt2 == <<I(<<"x">>), K("ARROW"), I(<<"x">>), K("GT"), N(2)>>

L_inverse == <<I(<<"x">>), K("ARROW"), N(6), K("SLASH"), I(<<"x">>)>>

L_vector == <<I(<<"x">>), K("ARROW"), K("LBRACKET"), I(<<"x">>), K("RBRACKET")>>

\* x => reduce((a, b) => a + b, x, [1, 2])
L_reduce_x ==
    <<I(<<"x">>), K("ARROW"), I(N_reduce), K("LPAREN"),
      K("LPAREN"), I(<<"a">>), K("COMMA"), I(<<"b">>), K("RPAREN"), K("ARROW"),
      I(<<"a">>), K("PLUS"), I(<<"b">>), K("COMMA"), I(<<"x">>), K("COMMA"),
      K("LBRACKET"), N(1), K("COMMA"), N(2), K("RBRACKET"), K("RPAREN")>>

Lambdas == {L_double, L_add, L_sub, L_gt2, L_inverse, L_vector}

RECURSIVE VectorItems(_, _)
VectorItems(es, i) ==
    IF i > Len(es) THEN <<>>
    ELSE (IF i > 1 THEN <<K("COMMA")>> ELSE <<>>) \o <<N(es[i])>> \o VectorItems(es, i + 1)

V(es) == <<K("LBRACKET")>> \o VectorItems(es, 1) \o <<K("RBRACKET")>>

Collections == {V(<<>>), V(<<1, 2, 3>>), V(<<1, 2, 3, 4>>), V(<<3, 0, 1>>), <<N(7)>>}

Seeds == {<<N(0)>>, <<N(10)>>, V(<<1>>)}

\* name(arg1, arg2, ...)
RECURSIVE ArgItems(_, _)
ArgItems(args, i) ==
    IF i > Len(args) THEN <<>>
    ELSE (IF i > 1 THEN <<K("COMMA")>> ELSE <<>>) \o args[i] \o ArgItems(args, i + 1)

Call(name, args) == Stream(<<I(name), K("LPAREN")>> \o ArgItems(args, 1) \o <<K("RPAREN")>>)

HigherOrderStreams ==
    {Call(N_map, <<f, c>>) : f \in Lambdas, c \in Collections}
    \cup {Call(N_map, <<f, c1, c2>>) : f \in Lambdas, c1 \in Collections, c2 \in Collections}
    \cup {Call(N_filter, <<f, c>>) : f \in Lambdas, c \in Collections}
    \cup {Call(N_reduce, <<f, s, c>>) : f \in Lambdas, s \in Seeds, c \in Collections}

\* "(" followed by what may or may not be a lambda parameter list
LookaheadItems == {I(<<"a">>), I(<<"b">>), K("COMMA"), K("RPAREN"), N(2)}

LookaheadTails ==
    {<<>>, <<K("ARROW"), I(<<"a">>)>>, <<K("RPAREN")>>,
     <<K("RPAREN"), K("ARROW"), I(<<"b">>)>>,
     <<K("RPAREN"), K("PLUS"), N(2)>>, <<K("RPAREN"), K("ARROW")>>}

LookaheadStreams(maxLen) ==
    {Stream(<<K("LPAREN")>> \o head \o tail) :
        head \in UNION {[1..n -> LookaheadItems] : n \in 1..(maxLen - 1)},
        tail \in LookaheadTails}

Operands ==
    {Num(0), Num(1), Num(-2), Rat(1, 2),
     Cplx(Num(0), Num(0)), Cplx(Num(1), Num(1)), Cplx(Num(0), Num(2)), Cplx(Num(3), Num(0)),
     Vec(<<>>), Vec(<<Num(0)>>), Vec(<<Num(1), Num(0)>>), Vec(<<Num(2), Num(4)>>),
     Mat(1, 1, <<Num(0)>>), Mat(1, 2, <<Num(2), Num(4)>>)}

NoOutcome == [ok |-> FALSE, val |-> NoVal, err |-> "none"]

Input(kind, input) ==
    [kind |-> kind, input |-> input, done |-> FALSE,
     ast |-> PErr("none", 0), result |-> NoOutcome, vdiv |-> NoOutcome, log |-> <<>>,
     env |-> EmptyEnv]

Inputs(maxLen) ==
    {Input("tokens", t) :
        t \in ArithmeticStreams(maxLen) \cup ParenthesizedStreams \cup ExampleStreams
               \cup MatrixStreams \cup HigherOrderStreams \cup LookaheadStreams(maxLen)}
    \cup {Input("operands", <<a, b>>) : a \in Operands, b \in Operands}

\* "parser::Evaluator evaluator;": a fresh evaluator with an empty environment
evaluator == [env |-> EmptyEnv, cur |-> "null", self |-> "evaluator", log |-> <<>>]

Outcome3(r) == [ok |-> r.ok, val |-> r.val, err |-> r.err]

\* eval of the stateless host from "Parser parser(tokens)" on
statelessEval ==
    /\ probe.kind = "tokens"
    /\ ~probe.done
    /\ \E ast \in {parse(probe.input)} :
          IF ~ast.ok
          THEN probe' = [probe EXCEPT
                            !.done = TRUE,
                            !.ast = ast,
                            !.result = [ok |-> FALSE, val |-> NoVal, err |-> ast.err]]
          ELSE \E result \in {evaluate(ast.node, evaluator, 0, 0)} :
                  probe' = [probe EXCEPT
                               !.done = TRUE,
                               !.ast = ast,
                               !.result = Outcome3(result),
                               !.log = result.S.log,
                               !.env = result.S.env]
    /\ UNCHANGED host

\* lhs / rhs on two Values, and vdiv(lhs, rhs)
divide ==
    /\ probe.kind = "operands"
    /\ ~probe.done
    /\ probe' = [probe EXCEPT
                    !.done = TRUE,
                    !.result = ValueDiv(probe.input[1], probe.input[2]),
                    !.vdiv = NativeCall(N_vdiv, probe.input)]
    /\ UNCHANGED host

BinaryOperands ==
    Operands \cup {Num(3), Vec(<<Num(1), Num(2), Num(3)>>), Mat(2, 1, <<Num(1), Num(3)>>)}

BinaryInputs ==
    {[kind |-> "binary", input |-> <<a, b>>, done |-> FALSE,
      add |-> NoOutcome, sub |-> NoOutcome, mul |-> NoOutcome, div |-> NoOutcome] :
        a \in BinaryOperands, b \in BinaryOperands}

\* lhs + rhs, lhs - rhs, lhs * rhs and lhs / rhs on two Values
operate ==
    /\ probe.kind = "binary"
    /\ ~probe.done
    /\ probe' = [probe EXCEPT
                    !.done = TRUE,
                    !.add = ValueAdd(probe.input[1], probe.input[2]),
                    !.sub = ValueSub(probe.input[1], probe.input[2]),
                    !.mul = ValueMul(probe.input[1], probe.input[2]),
                    !.div = ValueDiv(probe.input[1], probe.input[2])]
    /\ UNCHANGED host

\* the operators and delimiters of TokenType with their lexemes
OperatorLexemes ==
    {<<"PLUS", <<"+">>>>, <<"MINUS", <<"-">>>>, <<"STAR", <<"*">>>>, <<"SLASH", <<"/">>>>,
     <<"CARET", <<"^">>>>, <<"MODULO", <<"%">>>>, <<"ASSIGN", <<"=">>>>, <<"GT", <<">">>>>,
     <<"LT", <<"<">>>>, <<"GTE", <<">", "=">>>>, <<"LTE", <<"<", "=">>>>,
     <<"EQ", <<"=", "=">>>>, <<"NEQ", <<"!", "=">>>>, <<"ARROW", <<"=", ">">>>>,
     <<"LPAREN", <<"(">>>>, <<"RPAREN", <<")">>>>, <<"LBRACKET", <<"[">>>>,
     <<"RBRACKET", <<"]">>>>, <<"COMMA", <<",">>>>, <<"SEMICOLON", <<";">>>>}

\* each lexeme alone and between two operands: "op" and "1 op 2"
OperatorTexts ==
    {o[2] : o \in OperatorLexemes}
    \cup {<<"1", " ">> \o o[2] \o <<" ", "2">> : o \in OperatorLexemes}

\* every text of up to maxLen characters: a digit, a dot, a letter that is
\* also the exponent mark, an operator that is also a sign, a blank, and a
\* character this lexer has no rule for
LexerCharacters == {"1", ".", "e", "-", " ", "="}

LexerTexts(maxLen) == UNION {[1..n -> LexerCharacters] : n \in 0..maxLen}

TextInputs ==
    {[kind |-> "text", input |-> t, done |-> FALSE,
      tokens |-> [ok |-> FALSE, err |-> "none", tokens |-> <<>>]] :
        t \in OperatorTexts \cup Texts \cup LexerTexts(MaxLen)}

\* Lexer lexer(expression); lexer.tokenize()
scan ==
    /\ probe.kind = "text"
    /\ ~probe.done
    /\ probe' = [probe EXCEPT !.done = TRUE, !.tokens = tokenize(probe.input)]
    /\ UNCHANGED host

\* lambdas, closures, arguments and caller Environments for applyFunction
L_id == <<I(<<"y">>), K("ARROW"), I(<<"y">>)>>

L_plus_x == <<I(<<"y">>), K("ARROW"), I(<<"y">>), K("PLUS"), I(<<"x">>)>>

L_div0 == <<I(<<"y">>), K("ARROW"), I(<<"y">>), K("SLASH"), N(0)>>

L_first ==
    <<K("LPAREN"), I(<<"a">>), K("COMMA"), I(<<"b">>), K("RPAREN"), K("ARROW"), I(<<"a">>)>>

L_twice ==
    <<K("LPAREN"), I(<<"a">>), K("COMMA"), I(<<"a">>), K("RPAREN"), K("ARROW"), I(<<"a">>)>>

L_call_g ==
    <<I(<<"z">>), K("ARROW"), I(<<"g">>), K("LPAREN"), I(<<"z">>), K("RPAREN")>>

L_map_g ==
    <<I(<<"v">>), K("ARROW"), I(N_map), K("LPAREN"), I(<<"g">>), K("COMMA"), I(<<"v">>),
      K("RPAREN")>>

L_reduce_g ==
    <<I(<<"v">>), K("ARROW"), I(N_reduce), K("LPAREN"),
      K("LPAREN"), I(<<"a">>), K("COMMA"), I(<<"b">>), K("RPAREN"), K("ARROW"),
      I(<<"a">>), K("PLUS"), I(<<"g">>), K("LPAREN"), I(<<"b">>), K("RPAREN"),
      K("COMMA"), N(0), K("COMMA"), I(<<"v">>), K("RPAREN")>>

\* v => map(x => reduce((a, b) => a + b, x, [1, 2]), v)
L_map_reduce ==
    <<I(<<"v">>), K("ARROW"), I(N_map), K("LPAREN")>> \o L_reduce_x
        \o <<K("COMMA"), I(<<"v">>), K("RPAREN")>>

\* the Function evaluateLambda builds from a lambda in an Environment
Lambda(items, closure) ==
    evaluate(parse(Stream(items)).node, [evaluator EXCEPT !.env = closure], 0, 0).val

Env1(name, value) == [n \in {name} |-> value]

Closure_x == Env1(<<"x">>, Num(5))

Closure_g == Env1(<<"g">>, Lambda(L_plus_x, Closure_x))

AppliedFunctions ==
    {Lambda(L_id, EmptyEnv), Lambda(L_id, Closure_x), Lambda(L_id, Env1(<<"y">>, Num(9))),
     Lambda(L_plus_x, Closure_x), Lambda(L_double, EmptyEnv), Lambda(L_double, Closure_x),
     Lambda(L_div0, EmptyEnv), Lambda(L_sub, EmptyEnv), Lambda(L_first, Closure_x),
     Lambda(L_first, Env1(<<"b">>, Num(9))), Lambda(L_twice, EmptyEnv),
     Lambda(L_call_g, Closure_g), Lambda(L_map_g, Closure_g), Lambda(L_reduce_g, Closure_g),
     Lambda(L_map_reduce, EmptyEnv)}

AppliedArgs ==
    {<<Num(1)>>, <<Num(3), Num(4)>>, <<Vec(<<Num(1), Num(2)>>)>>}

CallerEnvs ==
    {EmptyEnv, Env1(<<"x">>, Num(7)), Env1(<<"z">>, Num(8)) @@ Env1(<<"g">>, Num(6))}

ApplyInputs ==
    {[kind |-> "apply", input |-> <<f, args, env>>, done |-> FALSE,
      result |-> NoOutcome, env |-> EmptyEnv, log |-> <<>>] :
        f \in AppliedFunctions, args \in AppliedArgs, env \in CallerEnvs}

\* Evaluator::applyFunction called during a walk of an evaluator whose
\* Environment is the caller's
apply ==
    /\ probe.kind = "apply"
    /\ ~probe.done
    /\ \E result \in {applyFunction(probe.input[1], probe.input[2],
                                    [evaluator EXCEPT !.env = probe.input[3],
                                                      !.cur = "evaluator"], 1)} :
          probe' = [probe EXCEPT !.done = TRUE, !.result = Outcome3(result),
                                 !.env = result.S.env, !.log = result.S.log]
    /\ UNCHANGED host

PureInit ==
    HostInit /\ probe \in (Inputs(MaxLen) \cup BinaryInputs \cup TextInputs \cup ApplyInputs)

PureNext == statelessEval \/ divide \/ operate \/ scan \/ apply

SpecPure == PureInit /\ [][PureNext]_vars

\* ------------------------------------------------------------------------
\* The handle table alone (core/handle_manager.hpp) with the handle exports
\* and the data-pointer getters of bindings/fast_ops.cpp.  nextHandle_ is
\* kept at or below MaxIssued + 1, far from the end of the int32_t range.
\* ------------------------------------------------------------------------
INVALID_HANDLE == -1

HandleArgs == INVALID_HANDLE .. MaxIssued

HandleValues == {Vec(<<Num(1)>>), Mat(1, 1, <<Num(2)>>)}

NoPointer == [handle |-> INVALID_HANDLE, buffer |-> "none", live |-> FALSE]

HandleProbe == [kind |-> "handles", valuesBefore |-> [h \in {} |-> NoVal],
                earlier |-> {}, returned |-> {}, pointer |-> NoPointer]

\* what a call leaves in the ghost record: the table it started from and
\* the handles create and clone had returned before it
Called == [probe EXCEPT !.valuesBefore = values_, !.earlier = probe.returned]

\* the pointer handed out earlier dies with the buffer it refers to
Surviving(pointer, values) ==
    [pointer EXCEPT !.live = @ /\ (pointer.buffer = "values_" => pointer.handle \in DOMAIN values)]

\* HandleManager::isValid
isValid(handle) == handle \in DOMAIN values_

\* HandleManager::get
getValue(handle) == IF isValid(handle) THEN Ok(values_[handle]) ELSE Err("Invalid handle")

\* variant: release also drops every handle that holds an equal value
release_erasesEqual(handle) ==
    [ok |-> isValid(handle),
     values |-> IF isValid(handle)
                THEN [h \in {g \in DOMAIN values_ : values_[g] # values_[handle]} |-> values_[h]]
                ELSE values_]

\* HandleManager::release
release(handle) ==
    [ok |-> isValid(handle), values |-> [h \in DOMAIN values_ \ {handle} |-> values_[h]]]

\* variant: clear also restarts the handle counter
clearValues_resetsCounter == [values |-> [h \in {} |-> NoVal], next |-> 1]

\* HandleManager::clear
clearValues == [values |-> [h \in {} |-> NoVal], next |-> nextHandle_]

\* Value::asVector and Value::asMatrix return the alternative by value: the
\* caller receives a copy that owns an element buffer of its own
asVector(value) == [e |-> value.e, buffer |-> "temporary"]

asMatrix(value) == [rows |-> value.rows, cols |-> value.cols, e |-> value.e, buffer |-> "temporary"]

\* the address of elements().data() of an object, as seen once the getter
\* has returned: the buffer of a temporary is gone by then
dataPointer(handle, object) ==
    [handle |-> handle, buffer |-> object.buffer, live |-> object.buffer # "temporary"]

\* HandleManager::create called by the host (createVectorFromBuffer,
\* createMatrixFromBuffer, the fast operations)
callCreate(value) ==
    /\ nextHandle_ <= MaxIssued
    /\ values_' = create(value).values
    /\ nextHandle_' = nextHandle_ + 1
    /\ last' = Outcome("create", value, TRUE, create(value).handle, "none", <<>>)
    /\ probe' = [Called EXCEPT !.returned = @ \cup {create(value).handle}]
    /\ UNCHANGED <<env_, savedASTs_, currentEvaluator_, steps>>

\* cloneHandle: HandleManager::clone
cloneHandle(handle) ==
    /\ isValid(handle) => nextHandle_ <= MaxIssued
    /\ \E value \in {getValue(handle)} :
          IF ~value.ok
          THEN /\ last' = Outcome("clone", handle, FALSE, INVALID_HANDLE, value.err, <<>>)
               /\ probe' = Called
               /\ UNCHANGED <<values_, nextHandle_>>
          ELSE /\ values_' = create(value.val).values
               /\ nextHandle_' = nextHandle_ + 1
               /\ last' = Outcome("clone", handle, TRUE, create(value.val).handle, "none", <<>>)
               /\ probe' = [Called EXCEPT !.returned = @ \cup {create(value.val).handle}]
    /\ UNCHANGED <<env_, savedASTs_, currentEvaluator_, steps>>

\* HandleManager::release called by the host (releaseHandle drops the result)
callRelease(handle) ==
    /\ values_' = release(handle).values
    /\ last' = Outcome("release", handle, TRUE, release(handle).ok, "none", <<>>)
    /\ probe' = [Called EXCEPT !.pointer = Surviving(@, release(handle).values)]
    /\ UNCHANGED <<env_, savedASTs_, currentEvaluator_, nextHandle_, steps>>

\* HandleManager::clear
callClear ==
    /\ values_' = clearValues.values
    /\ nextHandle_' = clearValues.next
    /\ last' = Outcome("clear", <<>>, TRUE, NoVal, "none", <<>>)
    /\ probe' = [Called EXCEPT !.pointer = Surviving(@, clearValues.values)]
    /\ UNCHANGED <<env_, savedASTs_, currentEvaluator_, steps>>

\* HandleManager::get called by the host (getHandleType and the getters)
callGet(handle) ==
    /\ last' = Outcome("get", handle, getValue(handle).ok, getValue(handle).val,
                       getValue(handle).err, <<>>)
    /\ probe' = Called
    /\ UNCHANGED <<env_, savedASTs_, currentEvaluator_, values_, nextHandle_, steps>>

\* isValidHandle
isValidHandle(handle) ==
    /\ last' = Outcome("isValid", handle, TRUE, isValid(handle), "none", <<>>)
    /\ probe' = Called
    /\ UNCHANGED <<env_, savedASTs_, currentEvaluator_, values_, nextHandle_, steps>>

\* getVectorData and getVectorDataPtr: the two differ in the length output only
vectorData(op, handle) ==
    /\ \E value \in {getValue(handle)} :
          IF ~value.ok
          THEN /\ last' = Outcome(op, handle, FALSE, NoVal, value.err, <<>>)
               /\ probe' = Called
          ELSE IF ~isVector(value.val)
          THEN /\ last' = Outcome(op, handle, FALSE, NoVal, "Handle does not contain a vector", <<>>)
               /\ probe' = Called
          ELSE \E vec \in {asVector(value.val)} :
                  /\ last' = Outcome(op, handle, TRUE, Len(vec.e), "none", <<>>)
                  /\ probe' = [Called EXCEPT !.pointer = dataPointer(handle, vec)]
    /\ UNCHANGED <<env_, savedASTs_, currentEvaluator_, values_, nextHandle_, steps>>

getVectorData(handle) == vectorData("getVectorData", handle)

getVectorDataPtr(handle) == vectorData("getVectorDataPtr", handle)

getMatrixData(handle) ==
    /\ \E value \in {getValue(handle)} :
          IF ~value.ok
          THEN /\ last' = Outcome("getMatrixData", handle, FALSE, NoVal, value.err, <<>>)
               /\ probe' = Called
          ELSE IF ~isMatrix(value.val)
          THEN /\ last' = Outcome("getMatrixData", handle, FALSE, NoVal,
                                  "Handle does not contain a matrix", <<>>)
               /\ probe' = Called
          ELSE \E mat \in {asMatrix(value.val)} :
                  /\ last' = Outcome("getMatrixData", handle, TRUE, <<mat.rows, mat.cols>>, "none", <<>>)
                  /\ probe' = [Called EXCEPT !.pointer = dataPointer(handle, mat)]
    /\ UNCHANGED <<env_, savedASTs_, currentEvaluator_, values_, nextHandle_, steps>>

\* bindVariableToHandle as a step of the handle host
bindVariable(varName, handle) ==
    /\ bindVariableToHandle(varName, handle)
    /\ probe.kind = "handles"

HandleInit == HostInit /\ probe = HandleProbe

HandleNext ==
    \/ \E value \in HandleValues : callCreate(value)
    \/ \E handle \in HandleArgs : cloneHandle(handle)
    \/ \E handle \in HandleArgs : callRelease(handle)
    \/ callClear
    \/ \E handle \in HandleArgs : callGet(handle)
    \/ \E handle \in HandleArgs : isValidHandle(handle)
    \/ \E handle \in HandleArgs : getVectorData(handle)
    \/ \E handle \in HandleArgs : getVectorDataPtr(handle)
    \/ \E handle \in HandleArgs : getMatrixData(handle)
    \/ \E handle \in HandleArgs : bindVariable(<<"v">>, handle)

SpecHandles == HandleInit /\ [][HandleNext]_vars

\* ------------------------------------------------------------------------
\* Functions reachable in the session, and the nodes of an AST
\* ------------------------------------------------------------------------
RECURSIVE FunctionsOf(_)
FunctionsOf(v) ==
    IF isFunction(v)
    THEN {v} \cup UNION {FunctionsOf(v.closure[n]) : n \in DOMAIN v.closure}
    ELSE {}

ReachableFunctions ==
    UNION {FunctionsOf(env_[n]) : n \in DOMAIN env_}
    \cup UNION {FunctionsOf(values_[h]) : h \in DOMAIN values_}

RECURSIVE Subtrees(_)
Subtrees(node) ==
    {node} \cup
    CASE node.t = "BINARY_OP" -> Subtrees(node.left) \cup Subtrees(node.right)
      [] node.t = "UNARY_OP" -> Subtrees(node.operand)
      [] node.t = "FUNCTION_CALL" -> UNION {Subtrees(node.args[i]) : i \in DOMAIN node.args}
      [] node.t = "VECTOR_LITERAL" ->
            UNION {Subtrees(node.elements[i]) : i \in DOMAIN node.elements}
      [] node.t = "MATRIX_LITERAL" ->
            UNION {UNION {Subtrees(node.rows[i][j]) : j \in DOMAIN node.rows[i]} :
                   i \in DOMAIN node.rows}
      [] node.t = "VARIABLE_DECLARATION" -> Subtrees(node.initializer)
      [] node.t = "LAMBDA" -> Subtrees(node.body)
      [] OTHER -> {}

HasEvent(log, kind) == \E i \in DOMAIN log : log[i][1] = kind

IsEval == last.op \in {"eval", "evalTokens"}

ArityError == "Function expects N arguments"

\* ------------------------------------------------------------------------
\* The sessions host (bindings/main_sessions.cpp).  The session table and
\* the current session id are fields of the record probe.
\* ------------------------------------------------------------------------
SessionIds == {"default", "a"}

SessionPrograms == {P_let_x_5, P_let_x_7, P_x_plus_10, P_let_f, P_call_f}

SessionTexts == {X_arith, X_let_x_5}

\* static std::unordered_map<std::string, std::shared_ptr<Evaluator>> sessions
sessions == probe.sessions

\* static std::string currentSessionId = "default"
currentSessionId == probe.currentSessionId

SessionProbe ==
    [kind |-> "sessions", sessions |-> [id \in {} |-> EmptyEnv], currentSessionId |-> "default",
     sessionsBefore |-> [id \in {} |-> EmptyEnv], currentBefore |-> "default"]

\* what a call leaves in the ghost fields: the table and the id it found
Entered == [probe EXCEPT !.sessionsBefore = sessions, !.currentBefore = currentSessionId]

\* sessions[sessionId] = std::make_shared<parser::Evaluator>()
makeEvaluator(table, sessionId) ==
    [id \in DOMAIN table \cup {sessionId} |-> IF id = sessionId THEN EmptyEnv ELSE table[id]]

\* if (!sessions.count(id)) sessions[id] = std::make_shared<parser::Evaluator>()
ensured(table, sessionId) ==
    IF sessionId \in DOMAIN table THEN table ELSE makeEvaluator(table, sessionId)

\* eval destroys its AST when it returns, and a Function keeps a non-owning
\* pointer to its body: a Function stored by an earlier call is found with
\* the body it had or, its storage reused, with a node of the AST parsed
\* by the present call
RECURSIVE Reused(_, _)
Reused(value, nodes) ==
    IF ~isFunction(value) THEN {value}
    ELSE {[[value EXCEPT !.body = body] EXCEPT !.closure = closure] :
             body \in {value.body} \cup nodes,
             closure \in {e \in [DOMAIN value.closure ->
                                   UNION {Reused(value.closure[n], nodes) : n \in DOMAIN value.closure}] :
                             \A n \in DOMAIN value.closure : e[n] \in Reused(value.closure[n], nodes)}}

Dangling(env, nodes) ==
    {e \in [DOMAIN env -> UNION {Reused(env[n], nodes) : n \in DOMAIN env}] :
        \A n \in DOMAIN env : e[n] \in Reused(env[n], nodes)}

\* variant: every call walks with the evaluator of the session "default"
sessionEvaluator_default(table, sessionId) == "default"

\* auto& evaluator = *sessions[currentSessionId]
sessionEvaluator(table, sessionId) == sessionId

\* eval from "auto& evaluator" on, the AST given
evaluateInSession(op, input, table, ast) ==
    \E id \in {sessionEvaluator(table, currentSessionId)} :
    \E env \in Dangling(ensured(table, id)[id], Subtrees(ast)) :
    \E result \in {evaluate(ast, [env |-> env, cur |-> currentEvaluator_, self |-> id, log |-> <<>>],
                            steps + 1, 0)} :
       /\ probe' = [Entered EXCEPT !.sessions = [ensured(table, id) EXCEPT ![id] = result.S.env]]
       /\ currentEvaluator_' = result.S.cur
       /\ last' = [Outcome(op, input, result.ok, result.val, result.err, result.S.log)
                       EXCEPT !.ast = ast, !.envBefore = env]

\* eval from "Parser parser(tokens)" on
parseInSession(op, input, table, tokens) ==
    \E ast \in {parse(tokens)} :
       IF ~ast.ok
       THEN /\ last' = Outcome(op, input, FALSE, NoVal, ast.err, <<>>)
            /\ probe' = [Entered EXCEPT !.sessions = table]
            /\ UNCHANGED currentEvaluator_
       ELSE evaluateInSession(op, input, table, ast.node)

createSession(sessionId) ==
    /\ probe.kind = "sessions"
    /\ IF sessionId \in DOMAIN sessions
       THEN /\ last' = Outcome("createSession", sessionId, FALSE, NoVal, "already exists", <<>>)
            /\ probe' = Entered
       ELSE /\ last' = Outcome("createSession", sessionId, TRUE, NoVal, "none", <<>>)
            /\ probe' = [Entered EXCEPT !.sessions = makeEvaluator(sessions, sessionId)]
    /\ UNCHANGED <<env_, savedASTs_, currentEvaluator_, values_, nextHandle_, steps>>

useSession(sessionId) ==
    /\ probe.kind = "sessions"
    /\ last' = Outcome("useSession", sessionId, TRUE, NoVal, "none", <<>>)
    /\ probe' = [Entered EXCEPT !.sessions = ensured(sessions, sessionId),
                                !.currentSessionId = sessionId]
    /\ UNCHANGED <<env_, savedASTs_, currentEvaluator_, values_, nextHandle_, steps>>

\* variant: the session is erased and the current id is left as it was
deleteSession_keepsCurrent(sessionId) ==
    /\ probe.kind = "sessions"
    /\ IF sessionId \notin DOMAIN sessions
       THEN /\ last' = Outcome("deleteSession", sessionId, FALSE, NoVal, "not found", <<>>)
            /\ probe' = Entered
       ELSE /\ last' = Outcome("deleteSession", sessionId, TRUE, NoVal, "none", <<>>)
            /\ probe' = [Entered EXCEPT
                             !.sessions = [id \in DOMAIN sessions \ {sessionId} |-> sessions[id]]]
    /\ UNCHANGED <<env_, savedASTs_, currentEvaluator_, values_, nextHandle_, steps>>

deleteSession(sessionId) ==
    /\ probe.kind = "sessions"
    /\ IF sessionId \notin DOMAIN sessions
       THEN /\ last' = Outcome("deleteSession", sessionId, FALSE, NoVal, "not found", <<>>)
            /\ probe' = Entered
       ELSE /\ last' = Outcome("deleteSession", sessionId, TRUE, NoVal, "none", <<>>)
            /\ \E erased \in {[id \in DOMAIN sessions \ {sessionId} |-> sessions[id]]} :
                  IF currentSessionId = sessionId
                  THEN probe' = [Entered EXCEPT !.sessions = ensured(erased, "default"),
                                                !.currentSessionId = "default"]
                  ELSE probe' = [Entered EXCEPT !.sessions = erased]
    /\ UNCHANGED <<env_, savedASTs_, currentEvaluator_, values_, nextHandle_, steps>>

\* std::string eval(const std::string& expression) of main_sessions.cpp
sessionEval(text) ==
    /\ probe.kind = "sessions"
    /\ steps < MaxEvals
    /\ steps' = steps + 1
    /\ \E table \in {ensured(sessions, currentSessionId)} :
       \E tokens \in {tokenize(text)} :
          IF ~tokens.ok
          THEN /\ last' = Outcome("eval", text, FALSE, NoVal, tokens.err, <<>>)
               /\ probe' = [Entered EXCEPT !.sessions = table]
               /\ UNCHANGED currentEvaluator_
          ELSE parseInSession("eval", text, table, tokens.tokens)
    /\ UNCHANGED <<env_, savedASTs_, values_, nextHandle_>>

\* the parser and evaluator stages of that eval on a token vector
sessionEvalTokens(tokens) ==
    /\ probe.kind = "sessions"
    /\ steps < MaxEvals
    /\ steps' = steps + 1
    /\ parseInSession("evalTokens", tokens, ensured(sessions, currentSessionId), tokens)
    /\ UNCHANGED <<env_, savedASTs_, values_, nextHandle_>>

SessionInit == HostInit /\ probe = SessionProbe

SessionNext ==
    \/ \E sessionId \in SessionIds : createSession(sessionId)
    \/ \E sessionId \in SessionIds : useSession(sessionId)
    \/ \E sessionId \in SessionIds : deleteSession(sessionId)
    \/ \E text \in SessionTexts : sessionEval(text)
    \/ \E tokens \in SessionPrograms : sessionEvalTokens(tokens)

SpecSessions == SessionInit /\ [][SessionNext]_vars

\* ------------------------------------------------------------------------
\* Properties of the persistent session
\* ------------------------------------------------------------------------

\* C1: an eval call that returns an error (lexical, parse or evaluation)
\* leaves the Environment exactly as it was before the call.
C1_FailedEvalLeavesEnvironment ==
    (IsEval /\ ~last.ok) => env_ = last.envBefore

\* C2: a name bound by a successful let in one eval call resolves to the
\* bound value in later eval calls ("let x = 5" then "x + 10" yields 15),
\* and after reset the Environment is empty.
C2_LetPersistsUntilReset ==
    /\ (last.op = "eval" /\ last.input = X_let_x_5 /\ ~has(last.envBefore, <<"x">>))
          => (last.ok /\ last.val = Num(5) /\ has(env_, <<"x">>) /\ env_[<<"x">>] = Num(5))
    /\ (last.op = "eval" /\ last.input = X_x_plus_10 /\ has(last.envBefore, <<"x">>)
          /\ last.envBefore[<<"x">>] = Num(5))
          => (last.ok /\ last.val = Num(15))
    /\ last.op = "reset" => env_ = EmptyEnv

\* C3: every Function value reachable from the Environment, from another
\* closure or from the handle table has a body that is a node of an AST still
\* held in savedASTs_; no eval, failed eval or reset releases one.
C3_BodiesPointIntoRetainedASTs ==
    \A f \in ReachableFunctions :
        /\ f.ast \in 1..Len(savedASTs_)
        /\ f.body \in Subtrees(savedASTs_[f.ast])

C3_Witness ==
    /\ last.op = "reset"
    /\ ReachableFunctions # {}
    /\ Len(savedASTs_) >= 1

ProbeArgs == {<<Num(1)>>, <<Num(1), Num(2)>>}

ApplyResult(f, args, env) ==
    LET r == applyFunction(f, args, globalEvaluator(env), 0)
    IN <<r.ok, r.val, r.err>>

\* C4: a Function created from a Lambda holds a copy of the Environment as
\* it was at that moment, and applying it gives the same result whatever is
\* defined or cleared in the Environment afterwards.
C4_ClosureIsSnapshot ==
    [][/\ \A f \in ReachableFunctions : \A args \in ProbeArgs :
             ApplyResult(f, args, env_) = ApplyResult(f, args, env_')
       /\ (last'.op = "evalTokens" /\ last'.ok /\ isFunction(last'.val))
             => last'.val.closure = env_]_vars

C4_Witness ==
    /\ last.op = "evalTokens" /\ last.input = P_call_g
    /\ has(last.envBefore, <<"g">>) /\ isFunction(last.envBefore[<<"g">>])
    /\ has(last.envBefore, <<"x">>)
    /\ ~has(last.envBefore[<<"g">>].closure, <<"x">>)
    /\ ~last.ok /\ last.err = "Undefined variable or constant"

\* the top-level call of the last evalTokens, when it is one
LastCall == last.ast

LastIsCall ==
    /\ last.op = "evalTokens"
    /\ LastCall.t = "FUNCTION_CALL"
    /\ evaluateArgs(LastCall.args, 1, <<>>, globalEvaluator(last.envBefore),
                    [ast |-> 0, depth |-> 0]).ok

LastCallsLambda ==
    /\ has(last.envBefore, LastCall.name)
    /\ isFunction(last.envBefore[LastCall.name])

ArityChecks(exempt) ==
    /\ (LastIsCall /\ ~exempt)
          => /\ (LastCallsLambda
                   /\ Len(last.envBefore[LastCall.name].params) # Len(LastCall.args))
                   => (~last.ok /\ last.err = ArityError /\ ~HasEvent(last.log, "body"))
             /\ (~LastCallsLambda /\ hasFunction(LastCall.name)
                   /\ getArity(LastCall.name) >= 0
                   /\ getArity(LastCall.name) # Len(LastCall.args))
                   => (~last.ok /\ last.err = ArityError /\ ~HasEvent(last.log, "builtin"))
             /\ (~LastCallsLambda /\ hasFunction(LastCall.name)
                   /\ (getArity(LastCall.name) = -1
                       \/ getArity(LastCall.name) = Len(LastCall.args)))
                   => HasEvent(last.log, "builtin")
    /\ \A f \in ReachableFunctions : \A args \in ProbeArgs :
          Len(args) # Len(f.params)
             => LET r == applyFunction(f, args, globalEvaluator(env_), 0)
                IN ~r.ok /\ r.err = ArityError /\ r.S.log = <<>>

LastDeclaration == last.ast

\* C6: define on a bound name raises a declaration error and leaves every
\* binding unchanged; set on an unbound name raises an error and creates no
\* binding; so a let on a name already declared fails and the old value stays.
C6_RedeclarationKeepsOldValue ==
    /\ \A name \in DOMAIN env_ :
          LET d == define(env_, name, Num(7)) IN ~d.ok /\ d.env = env_
    /\ \A name \in VarNames \ DOMAIN env_ :
          LET d == set(env_, name, Num(7)) IN ~d.ok /\ d.env = env_
    /\ (last.op = "evalTokens"
          /\ LastDeclaration.t = "VARIABLE_DECLARATION"
          /\ has(last.envBefore, LastDeclaration.name))
          => /\ ~last.ok
             /\ has(env_, LastDeclaration.name)
             /\ env_[LastDeclaration.name] = last.envBefore[LastDeclaration.name]

PiSpellings == {<<"p", "i">>, <<"P", "i">>, <<"p", "I">>, <<"P", "I">>}

ESpellings == {<<"e">>, <<"E">>}

RefNames == PiSpellings \cup ESpellings \cup {<<"x">>, <<"q">>, <<"f">>, <<"y">>}

\* C7: a VariableReference resolves to the local binding of exactly that
\* name when there is one, otherwise to the constant of that name looked up
\* case-insensitively, otherwise it is an undefined-name error; the
\* Environment is not changed by the lookup.
C7_ReferenceResolution ==
    \A name \in RefNames :
        LET r == evaluate(VariableReferenceNode(name), globalEvaluator(env_), 0, 0)
        IN /\ r.S.env = env_
           /\ IF name \in DOMAIN env_ THEN r.ok /\ r.val = env_[name]
              ELSE IF name \in PiSpellings THEN r.ok /\ r.val = PI
              ELSE IF name \in ESpellings THEN r.ok /\ r.val = E
              ELSE ~r.ok /\ r.err = "Undefined variable or constant"

C7_Witness ==
    /\ last.op = "evalTokens" /\ last.input = P_ref_PI
    /\ has(env_, <<"p", "i">>) /\ isFunction(env_[<<"p", "i">>])
    /\ last.ok /\ last.val = PI

\* ------------------------------------------------------------------------
\* Properties of the parser and of the value operators
\* ------------------------------------------------------------------------
TypeAt(items, p) == items[p].type

\* parentheses opened and not closed in items[lo..p-1]
OpenAt(items, lo, p) ==
    Cardinality({q \in lo..(p - 1) : TypeAt(items, q) = "LPAREN"})
    - Cardinality({q \in lo..(p - 1) : TypeAt(items, q) = "RPAREN"})

\* an operator of one of the types, outside parentheses, with a left operand
BinaryPositions(items, lo, hi, types) ==
    {p \in (lo + 1)..(hi - 1) :
        /\ TypeAt(items, p) \in types
        /\ OpenAt(items, lo, p) = 0
        /\ TypeAt(items, p - 1) \in {"NUMBER", "RPAREN"}}

SetMax(S) == CHOOSE x \in S : \A y \in S : y <= x

SetMin(S) == CHOOSE x \in S : \A y \in S : x <= y

Malformed == [wf |-> FALSE, ok |-> FALSE, val |-> NoVal]

Meaning(r) == [wf |-> TRUE, ok |-> r.ok, val |-> r.val]

Combine(type, l, r) ==
    IF ~l.wf \/ ~r.wf THEN Malformed
    ELSE IF ~l.ok \/ ~r.ok THEN [wf |-> TRUE, ok |-> FALSE, val |-> NoVal]
    ELSE Meaning(CASE type = "PLUS" -> ValueAdd(l.val, r.val)
                   [] type = "MINUS" -> ValueSub(l.val, r.val)
                   [] type = "STAR" -> ValueMul(l.val, r.val)
                   [] type = "SLASH" -> ValueDiv(l.val, r.val)
                   [] type = "CARET" -> ValuePow(l.val, r.val))

\* What items[lo..hi] means by the grammar's levels: + and - bind loosest and
\* group to the left, then * and / grouping to the left, then ^ grouping to
\* the right, then unary minus, then numbers and parentheses.
RECURSIVE Prescribed(_, _, _)
Prescribed(items, lo, hi) ==
    IF lo > hi THEN Malformed
    ELSE LET additive_ == BinaryPositions(items, lo, hi, {"PLUS", "MINUS"})
             term_ == BinaryPositions(items, lo, hi, {"STAR", "SLASH"})
             power_ == BinaryPositions(items, lo, hi, {"CARET"})
             split == IF additive_ # {} THEN SetMax(additive_)
                      ELSE IF term_ # {} THEN SetMax(term_)
                      ELSE IF power_ # {} THEN SetMin(power_)
                      ELSE 0
         IN IF split # 0
            THEN Combine(TypeAt(items, split), Prescribed(items, lo, split - 1),
                         Prescribed(items, split + 1, hi))
            ELSE IF TypeAt(items, lo) = "MINUS"
                THEN LET e == Prescribed(items, lo + 1, hi)
                     IN IF ~e.wf \/ ~e.ok THEN e ELSE Meaning(ValueNeg(e.val))
            ELSE IF TypeAt(items, lo) = "NUMBER"
                THEN IF lo = hi THEN [wf |-> TRUE, ok |-> TRUE, val |-> items[lo].value]
                     ELSE Malformed
            ELSE IF TypeAt(items, lo) = "LPAREN" /\ TypeAt(items, hi) = "RPAREN"
                THEN Prescribed(items, lo + 1, hi - 1)
            ELSE Malformed

IsArithmetic(toks) ==
    \A i \in 1..(Len(toks) - 1) :
        toks[i].type \in {"NUMBER", "PLUS", "MINUS", "STAR", "SLASH", "CARET",
                          "LPAREN", "RPAREN"}

Evaluated(toks) == probe.kind = "tokens" /\ probe.done /\ probe.input = toks

\* C8: the AST the parser builds evaluates as the grammar prescribes:
\* * and / bind tighter than + and -, ^ tighter than * and /, unary minus
\* tightest; + - * / group to the left and ^ to the right; parentheses
\* override; 2 + 3 * 4 is 14, 2 ^ 3 ^ 2 is 512, --5 is 5, (2 + 3) * 4 is 20.
C8_PrecedenceAndAssociativity ==
    /\ (probe.kind = "tokens" /\ probe.done /\ IsArithmetic(probe.input))
          => LET m == Prescribed(probe.input, 1, Len(probe.input) - 1)
             IN m.wf => /\ probe.ast.ok
                        /\ probe.ast.cur = Len(probe.input) - 1
                        /\ probe.result.ok = m.ok
                        /\ probe.result.val = m.val
    /\ Evaluated(E_2_plus_3_times_4) => probe.result.val = Num(14)
    /\ Evaluated(E_2_pow_3_pow_2) => probe.result.val = Num(512)
    /\ Evaluated(E_neg_neg_5) => probe.result.val = Num(5)
    /\ Evaluated(E_paren_2_plus_3_times_4) => probe.result.val = Num(20)
    /\ Evaluated(E_10_minus_6_div_2) => probe.result.val = Num(7)

C8_Witness ==
    /\ Evaluated(E_2_pow_3_pow_2)
    /\ Prescribed(probe.input, 1, Len(probe.input) - 1).wf
    /\ probe.result.ok
    /\ probe.result.val = Num(512)

\* the row sizes a matrix stream was built from
RowSizes(toks) ==
    CHOOSE shape \in Shapes :
        toks \in {Stream(MatrixItems(shape)), Stream(<<K("MINUS")>> \o MatrixItems(shape))}

IsMatrixStream(toks) ==
    /\ \E i \in 1..2 : toks[i].type = "LBRACKET"
    /\ \E shape \in Shapes :
           toks \in {Stream(MatrixItems(shape)), Stream(<<K("MINUS")>> \o MatrixItems(shape))}

FirstBadRow(shape) ==
    SetMin({i \in 2..Len(shape) : shape[i] # shape[1]})

RowError == "Matrix rows must have the same number of elements"

\* C9: a matrix literal whose rows differ in size is a parse error naming
\* the first row (0-based) whose size differs from row 0 and that row's size;
\* every MatrixLiteral node the parser returns has rows of equal size.
C9_MatrixRowsChecked ==
    (probe.kind = "tokens" /\ probe.done)
       => /\ IsMatrixStream(probe.input)
             => LET shape == RowSizes(probe.input)
                IN IF \A i \in 1..Len(shape) : shape[i] = shape[1]
                   THEN probe.ast.ok
                   ELSE /\ ~probe.ast.ok
                        /\ probe.ast.err = RowError
                        /\ probe.ast.info = <<shape[1], FirstBadRow(shape) - 1,
                                              shape[FirstBadRow(shape)]>>
          /\ probe.ast.ok
             => \A node \in Subtrees(probe.ast.node) :
                   node.t = "MATRIX_LITERAL"
                      => \A i, j \in DOMAIN node.rows : Len(node.rows[i]) = Len(node.rows[j])

C9_Witness ==
    /\ Evaluated(Stream(MatrixItems(<<2, 2, 1>>)))
    /\ ~probe.ast.ok
    /\ probe.ast.err = RowError
    /\ probe.ast.info = <<2, 2, 1>>

IsExactZero(v) ==
    \/ isNumber(v) /\ v = Num(0)
    \/ isComplex(v) /\ v = Cplx(Num(0), Num(0))

Divided == probe.kind = "operands" /\ probe.done

\* C10: division by exact zero is an error, never a value: Number / 0, a
\* Number or Complex divided by Number 0 or by Complex 0+0i, a Vector or
\* Matrix divided by the scalar 0, and vdiv(v1, v2) when an element of v2 is 0.
C10_DivisionByZeroIsError ==
    Divided =>
       LET a == probe.input[1]
           b == probe.input[2]
       IN /\ ((isNumber(a) \/ isComplex(a)) /\ IsExactZero(b)) => ~probe.result.ok
          /\ ((isVector(a) \/ isMatrix(a)) /\ isNumber(b) /\ b = Num(0)) => ~probe.result.ok
          /\ (isVector(a) /\ isVector(b) /\ \E i \in DOMAIN b.e : b.e[i] = Num(0))
                => ~probe.vdiv.ok
          /\ (isNumber(a) /\ isNumber(b) /\ b # Num(0))
                => (probe.result.ok /\ probe.result.val = NumDiv(a, b))

C10_Witness ==
    /\ Divided
    /\ probe.input = <<Num(1), Num(0)>>
    /\ ~probe.result.ok
    /\ probe.result.err = "Division by zero"

\* ------------------------------------------------------------------------
\* Properties of the binary operators on Vector and Matrix operands
\* ------------------------------------------------------------------------
Operated == probe.kind = "binary" /\ probe.done

Elementwise(Op(_, _), x, y) == [i \in 1..Len(x) |-> Op(x[i], y[i])]

\* m with every element replaced by F(element)
Broadcast(F(_), m) ==
    IF isVector(m) THEN Vec([i \in 1..Len(m.e) |-> F(m.e[i])])
    ELSE Mat(m.rows, m.cols, [i \in 1..Len(m.e) |-> F(m.e[i])])

\* C11: for two Vectors of equal length each of + - * / returns the Vector
\* of the element-wise results, and for unequal lengths each raises an error.
C11_VectorOperatorsElementwise ==
    (Operated /\ isVector(probe.input[1]) /\ isVector(probe.input[2]))
       => LET a == probe.input[1].e
              b == probe.input[2].e
          IN IF Len(a) = Len(b)
             THEN /\ probe.add = Ok(Vec(Elementwise(NumAdd, a, b)))
                  /\ probe.sub = Ok(Vec(Elementwise(NumSub, a, b)))
                  /\ probe.mul = Ok(Vec(Elementwise(NumMul, a, b)))
                  /\ (\A i \in DOMAIN b : ~IsZero(b[i]))
                        => probe.div = Ok(Vec(Elementwise(NumDiv, a, b)))
             ELSE /\ ~probe.add.ok
                  /\ ~probe.sub.ok
                  /\ ~probe.mul.ok
                  /\ ~probe.div.ok

\* C12: for a Number s and a Vector or Matrix m, s+m, m+s, s-m, m-s, s*m
\* and m*s return a value of the kind and shape of m with the scalar
\* operation applied to every element; m/s with s not 0 divides every
\* element by s; s/m is an error.
C12_ScalarBroadcast ==
    Operated =>
       LET a == probe.input[1]
           b == probe.input[2]
       IN /\ (isNumber(a) /\ (isVector(b) \/ isMatrix(b)))
                => /\ probe.add = Ok(Broadcast(LAMBDA x : NumAdd(a, x), b))
                   /\ probe.sub = Ok(Broadcast(LAMBDA x : NumSub(a, x), b))
                   /\ probe.mul = Ok(Broadcast(LAMBDA x : NumMul(a, x), b))
                   /\ ~probe.div.ok
          /\ ((isVector(a) \/ isMatrix(a)) /\ isNumber(b))
                => /\ probe.add = Ok(Broadcast(LAMBDA x : NumAdd(x, b), a))
                   /\ probe.sub = Ok(Broadcast(LAMBDA x : NumSub(x, b), a))
                   /\ probe.mul = Ok(Broadcast(LAMBDA x : NumMul(x, b), a))
                   /\ ~IsZero(b) => probe.div = Ok(Broadcast(LAMBDA x : NumDiv(x, b), a))

\* ------------------------------------------------------------------------
\* Properties of map, reduce and filter
\* ------------------------------------------------------------------------
\* the token stream was parsed into a call of the built-in of that name
HofCall(name) ==
    /\ probe.kind = "tokens"
    /\ probe.done
    /\ probe.ast.ok
    /\ probe.ast.node.t = "FUNCTION_CALL"
    /\ toLower(probe.ast.node.name) = name

\* the values of the call's arguments (literals and lambdas)
ArgValues ==
    [i \in DOMAIN probe.ast.node.args |->
        evaluate(probe.ast.node.args[i], evaluator, 0, 0).val]

\* f(args): what applying f to args gives
Applied(f, args) == applyFunction(f, args, [evaluator EXCEPT !.cur = "evaluator"], 1)

Returned(f, args) == Applied(f, args).ok /\ isNumber(Applied(f, args).val)

BodyEvents == SelectSeq(probe.log, LAMBDA e : e[1] = "body")

\* C13: map(f, c1, ..., ck) with k >= 1 vectors and f of arity k returns the
\* Vector of length min |cj| whose i-th element is f(c1[i], ..., ck[i]),
\* applying f in increasing i (each application returning a Number); when
\* f's arity differs from k or a later argument is not a vector it raises
\* an error and never enters f's body.
C13_MapAppliesElementwise ==
    (HofCall(N_map) /\ Len(ArgValues) >= 2 /\ isFunction(ArgValues[1]))
       => LET f == ArgValues[1]
              k == Len(ArgValues) - 1
              c(j) == ArgValues[j + 1]
          IN IF (\E j \in 1..k : ~isVector(c(j))) \/ Len(f.params) # k
             THEN ~probe.result.ok /\ BodyEvents = <<>>
             ELSE LET n == SetMin({Len(c(j).e) : j \in 1..k})
                      at(i) == [j \in 1..k |-> c(j).e[i]]
                  IN (\A i \in 1..n : Returned(f, at(i)))
                        => /\ probe.result = Ok(Vec([i \in 1..n |-> Applied(f, at(i)).val]))
                           /\ BodyEvents = [i \in 1..n |-> <<"body", f.params, at(i)>>]

C13_Witness ==
    /\ Evaluated(Call(N_map, <<L_sub, V(<<1, 2, 3, 4>>), V(<<3, 0, 1>>)>>))
    /\ probe.result = Ok(Vec(<<Num(-2), Num(2), Num(2)>>))
    /\ Len(BodyEvents) = 3

\* f(...f(f(acc, v[i]), v[i+1])..., v[n]) when every application returns a Number
RECURSIVE FoldLeft(_, _, _, _)
FoldLeft(f, acc, v, i) ==
    IF i > Len(v) THEN Ok(acc)
    ELSE IF ~Returned(f, <<acc, v[i]>>) THEN Err("not a fold")
    ELSE FoldLeft(f, Applied(f, <<acc, v[i]>>).val, v, i + 1)

\* C14: reduce(f, init, v) with a two-parameter f, a Number init and a
\* Vector v returns the left fold of f over v from init, applying f once per
\* element in index order, and init when v is empty; another arity or a
\* non-Number seed raises an error before f is applied.
C14_ReduceIsLeftFold ==
    (HofCall(N_reduce) /\ Len(ArgValues) = 3 /\ isFunction(ArgValues[1])
        /\ isVector(ArgValues[3]))
       => LET f == ArgValues[1]
              init == ArgValues[2]
              v == ArgValues[3].e
          IN IF Len(f.params) # 2 \/ ~isNumber(init)
             THEN ~probe.result.ok /\ BodyEvents = <<>>
             ELSE /\ v = <<>> => (probe.result = Ok(init) /\ BodyEvents = <<>>)
                  /\ FoldLeft(f, init, v, 1).ok
                        => /\ probe.result = FoldLeft(f, init, v, 1)
                           /\ Len(BodyEvents) = Len(v)
                           /\ \A i \in 1..Len(v) : BodyEvents[i][3][2] = v[i]
                           /\ Len(v) > 0 => BodyEvents[1][3][1] = init

C14_Witness ==
    /\ Evaluated(Call(N_reduce, <<L_sub, <<N(10)>>, V(<<1, 2, 3, 4>>)>>))
    /\ probe.result = Ok(Num(0))
    /\ Len(BodyEvents) = 4

\* C15: filter(p, v) with a one-parameter predicate p returns the Vector of
\* exactly the elements of v for which p returns a non-zero Number, in
\* their order and with their values; the result is never longer than v
\* and p is applied exactly once to each element.
C15_FilterKeepsMatching ==
    (HofCall(N_filter) /\ Len(ArgValues) = 2 /\ isFunction(ArgValues[1])
        /\ isVector(ArgValues[2]) /\ Len(ArgValues[1].params) = 1)
       => LET p == ArgValues[1]
              v == ArgValues[2].e
          IN (\A i \in 1..Len(v) : Returned(p, <<v[i]>>))
                => /\ probe.result =
                         Ok(Vec(SelectSeq(v, LAMBDA x : ~IsZero(Applied(p, <<x>>).val))))
                   /\ Len(probe.result.val.e) <= Len(v)
                   /\ BodyEvents = [i \in 1..Len(v) |-> <<"body", p.params, <<v[i]>>>>]

C15_Witness ==
    /\ Evaluated(Call(N_filter, <<L_gt2, V(<<1, 2, 3, 4>>)>>))
    /\ probe.result = Ok(Vec(<<Num(3), Num(4)>>))
    /\ Len(BodyEvents) = 4

\* ------------------------------------------------------------------------
\* Properties of the lexer
\* ------------------------------------------------------------------------
Scanned == probe.kind = "text" /\ probe.done

\* C16: tokenize turns each of + - * / ^ % = > < >= <= == != => ( ) [ ] , ;
\* into one token of the matching kind (the two-character token when two
\* characters match) and raises a lexical error for none of them.
C16_OperatorsTokenized ==
    Scanned =>
       \A o \in OperatorLexemes :
          /\ probe.input = o[2]
                => /\ probe.tokens.ok
                   /\ Len(probe.tokens.tokens) = 2
                   /\ probe.tokens.tokens[1].type = o[1]
                   /\ probe.tokens.tokens[1].lexeme = o[2]
                   /\ probe.tokens.tokens[2].type = "END"
          /\ probe.input = <<"1", " ">> \o o[2] \o <<" ", "2">>
                => /\ probe.tokens.ok
                   /\ Len(probe.tokens.tokens) = 4
                   /\ probe.tokens.tokens[2].type = o[1]

\* ------------------------------------------------------------------------
\* Claims on the handle table
\* ------------------------------------------------------------------------
HandleCall(op) == probe.kind = "handles" /\ last.op = op

\* the handles of table before that are still valid with the value they had
Kept(before, handles) ==
    \A h \in handles : isValid(h) /\ values_[h] = before[h]

\* C17: after any sequence of create, clone, release and clear, the handle
\* that create or clone returns differs from INVALID_HANDLE, from every
\* handle valid at the call and from every handle returned earlier, and no
\* handle valid at the call loses or changes its value.
C17_HandlesNeverReused ==
    ((HandleCall("create") \/ HandleCall("clone")) /\ last.ok) =>
        /\ last.val # INVALID_HANDLE
        /\ last.val \notin DOMAIN probe.valuesBefore
        /\ last.val \notin probe.earlier
        /\ Kept(probe.valuesBefore, DOMAIN probe.valuesBefore)

\* a create after a clear, with handles returned and released before it
C17_Witness ==
    /\ HandleCall("create")
    /\ probe.valuesBefore = [h \in {} |-> NoVal]
    /\ Cardinality(probe.earlier) >= 2
    /\ last.val = MaxIssued

\* C18: release(h) returns true exactly when h was valid; afterwards h is
\* not valid and get(h) raises the invalid-handle error, every other handle
\* keeps its validity and value, and the Environment (a variable bound from
\* h included) is as before.  clone(h) returns a new handle holding a copy
\* of h's value, and releasing either of the two leaves the other valid
\* with that value.
C18_ReleaseAndClone ==
    /\ HandleCall("release") =>
          /\ last.val = (last.input \in DOMAIN probe.valuesBefore)
          /\ ~isValid(last.input)
          /\ getValue(last.input) = Err("Invalid handle")
          /\ DOMAIN values_ = DOMAIN probe.valuesBefore \ {last.input}
          /\ Kept(probe.valuesBefore, DOMAIN probe.valuesBefore \ {last.input})
          /\ env_ = last.envBefore
    /\ (HandleCall("clone") /\ last.ok) =>
          /\ last.val \notin DOMAIN probe.valuesBefore
          /\ isValid(last.val) /\ values_[last.val] = probe.valuesBefore[last.input]
          /\ isValid(last.input) /\ values_[last.input] = probe.valuesBefore[last.input]
          /\ last.val \in DOMAIN release(last.input).values
          /\ release(last.input).values[last.val] = probe.valuesBefore[last.input]
          /\ last.input \in DOMAIN release(last.val).values
          /\ release(last.val).values[last.input] = probe.valuesBefore[last.input]

\* a handle is released while its clone is valid and a variable is bound
\* from it
C18_Witness ==
    /\ HandleCall("release")
    /\ last.val = TRUE
    /\ \E h \in DOMAIN values_ : values_[h] = probe.valuesBefore[last.input]
    /\ \E n \in DOMAIN env_ : env_[n] = probe.valuesBefore[last.input]

\* C19: the address returned by getVectorData, getVectorDataPtr and
\* getMatrixData refers to the element buffer owned by the Value stored
\* under the handle, not to a temporary destroyed when the call returns,
\* and stays valid as long as the handle exists.
C19_PointerIntoStoredValue ==
    (probe.kind = "handles" /\ probe.pointer.handle # INVALID_HANDLE) =>
        /\ probe.pointer.buffer = "values_"
        /\ isValid(probe.pointer.handle) => probe.pointer.live

\* ------------------------------------------------------------------------
\* Claims on the sessions host
\* ------------------------------------------------------------------------
SessionCall == probe.kind = "sessions" /\ last.op \in {"eval", "evalTokens"}

\* the Environment the call found in the session that was current
FoundEnv == ensured(probe.sessionsBefore, probe.currentBefore)[probe.currentBefore]

\* C20: in the sessions host, after any sequence of createSession,
\* useSession, deleteSession and eval, an eval call reads and changes only
\* the Environment of the session that was current when it was called: its
\* outcome and the Environment it leaves are those of evaluating the input
\* against that Environment alone, every other session exists as before
\* with an unchanged Environment, and a name the call declared resolves in
\* no other session that did not hold it already.
C20_EvalTouchesCurrentSessionOnly ==
    SessionCall =>
        /\ currentSessionId = probe.currentBefore
        /\ DOMAIN sessions = DOMAIN probe.sessionsBefore \cup {probe.currentBefore}
        /\ \A id \in DOMAIN probe.sessionsBefore \ {probe.currentBefore} :
              /\ sessions[id] = probe.sessionsBefore[id]
              /\ \A name \in DOMAIN sessions[currentSessionId] \ DOMAIN FoundEnv :
                    has(sessions[id], name) = has(probe.sessionsBefore[id], name)
        /\ IF last.ast = NoNode
           THEN sessions[currentSessionId] = FoundEnv
           ELSE /\ last.envBefore \in Dangling(FoundEnv, Subtrees(last.ast))
                /\ \E result \in {evaluate(last.ast,
                                           [env |-> last.envBefore, cur |-> "null",
                                            self |-> probe.currentBefore, log |-> <<>>],
                                           steps, 0)} :
                      /\ sessions[currentSessionId] = result.S.env
                      /\ last.ok = result.ok
                      /\ last.val = result.val
                      /\ last.err = result.err

\* a name is declared in the current session while another session holds
\* declarations of its own, that name not among them
C20_Witness ==
    /\ SessionCall
    /\ last.ok
    /\ \E id \in DOMAIN sessions \ {currentSessionId} :
          /\ sessions[id] # EmptyEnv
          /\ \E name \in DOMAIN sessions[currentSessionId] \ DOMAIN FoundEnv :
                ~has(sessions[id], name)

\* ------------------------------------------------------------------------
\* Claims on applyFunction
\* ------------------------------------------------------------------------
ApplyDone == probe.kind = "apply" /\ probe.done

\* C21: after an applyFunction call that returns normally the evaluator's
\* Environment is exactly the one it had before the call, no parameter and
\* no closure variable of the called function remaining, also when the
\* body calls lambdas or higher-order built-ins whose callbacks call
\* lambdas; and an expression that is not a let, evaluated to a value,
\* leaves the Environment as it was.
C21_ApplyRestoresEnvironment ==
    /\ (ApplyDone /\ probe.result.ok) => probe.env = probe.input[3]
    /\ (/\ probe.kind = "tokens" /\ probe.done /\ probe.ast.ok
        /\ probe.ast.node.t # "VARIABLE_DECLARATION"
        /\ probe.result.ok)
          => probe.env = evaluator.env

\* a lambda whose body runs reduce with a callback that calls a captured
\* lambda returns to a caller that binds names of its own
C21_Witness ==
    /\ ApplyDone
    /\ probe.input[1] = Lambda(L_reduce_g, Closure_g)
    /\ probe.input[3] # EmptyEnv
    /\ probe.result = Ok(Num(13))
    /\ Len(BodyEvents) = 5

\* the Environment the body is to see: the closure, each parameter bound to
\* the argument at its position (the last position of a repeated name)
Positions(params, name) == {i \in DOMAIN params : params[i] = name}

BoundEnv(func, args) ==
    [n \in DOMAIN func.closure \cup {func.params[i] : i \in DOMAIN func.params} |->
        IF Positions(func.params, n) # {}
        THEN args[CHOOSE i \in Positions(func.params, n) :
                     \A j \in Positions(func.params, n) : j <= i]
        ELSE func.closure[n]]

\* C22: for a Function f and as many arguments as f has parameters,
\* applyFunction evaluates the body with each parameter bound to the
\* argument at the same position, whatever names the captured closure
\* already binds and for every parameter list the parser accepts: the call
\* has the outcome of the body evaluated in the closure extended by those
\* bindings.
C22_ParametersBoundByPosition ==
    (ApplyDone /\ Len(probe.input[2]) = Len(probe.input[1].params)) =>
        probe.result =
            Outcome3(evaluate(probe.input[1].body,
                              [evaluator EXCEPT !.env = BoundEnv(probe.input[1], probe.input[2]),
                                                !.cur = "evaluator"],
                              probe.input[1].ast, 2))

\* ------------------------------------------------------------------------
\* Claims on the current-evaluator slot
\* ------------------------------------------------------------------------
HigherOrderNames == {N_map, N_filter, N_reduce, N_pipe}

\* the higher-order built-ins that ran, each with the slot it found
HigherOrderEvents ==
    SelectSeq(probe.log, LAMBDA e : e[1] = "builtin" /\ e[2] \in HigherOrderNames)

NoEvaluatorErrors ==
    {"No evaluator available for map", "No evaluator available for filter",
     "No evaluator available for reduce", "No evaluator available for pipe"}

\* C23: the current-evaluator slot follows a stack discipline: when
\* Evaluator::evaluate is left, by return or by error, the slot holds the
\* value it held on entry (null after the outermost call); and whenever
\* map, filter, reduce or pipe runs during a walk by an evaluator, the slot
\* is non-null and names that evaluator, also inside a lambda body called
\* by another built-in.
C23_SlotStackDiscipline ==
    /\ (probe.kind = "tokens" /\ probe.done /\ probe.ast.ok) =>
          /\ evaluate(probe.ast.node, evaluator, 0, 0).S.cur = "null"
          /\ evaluate(probe.ast.node, [evaluator EXCEPT !.cur = "outer"], 0, 0).S.cur = "outer"
    /\ (probe.kind \in {"tokens", "apply"} /\ probe.done) =>
          /\ \A i \in DOMAIN HigherOrderEvents : HigherOrderEvents[i][4] = evaluator.self
          /\ probe.result.err \notin NoEvaluatorErrors

\* reduce runs inside the body of a lambda that map calls
C23_Witness ==
    /\ ApplyDone
    /\ probe.input[1] = Lambda(L_map_reduce, EmptyEnv)
    /\ probe.result = Ok(Vec(<<Num(4), Num(5)>>))
    /\ Len(HigherOrderEvents) = 3

\* ------------------------------------------------------------------------
\* Claims on termination
\* ------------------------------------------------------------------------

\* C24: every evaluation ends with a value or an error, the nesting of
\* evaluate and applyFunction activations staying within the depth of the
\* AST and of the bodies of the lambdas it calls, in every Environment a
\* sequence of let declarations can build, lambdas that receive Functions
\* and call them included: no walk outgrows the stack.
C24_EvaluationTerminates ==
    IsEval => last.err # "stack overflow"

\* the number n of names when the tokens after "(" read
\* name (, name)* ) =>  (no n otherwise)
ListedCounts(toks) ==
    {n \in 1..Len(toks) :
        /\ 2 * n + 2 <= Len(toks)
        /\ \A k \in 1..n : toks[2 * k].type = "IDENTIFIER"
        /\ \A k \in 1..(n - 1) : toks[2 * k + 1].type = "COMMA"
        /\ toks[2 * n + 1].type = "RPAREN"
        /\ toks[2 * n + 2].type = "ARROW"}

ListedNames(toks, n) == [k \in 1..n |-> toks[2 * k].lexeme]

ParenFirst == probe.kind = "tokens" /\ probe.done /\ probe.input[1].type = "LPAREN"

\* C25: when a "(" starts a primary and the tokens after it are not a
\* parameter list followed by ")" and "=>", the parser goes back to the token
\* right after the "(" and the result is the AST or the error of parsing a
\* parenthesized expression from there; when they are, and the body parses,
\* the result is a Lambda with exactly the listed names in order.
C25_LambdaLookaheadBacktracks ==
    ParenFirst
       => IF ListedCounts(probe.input) = {}
          THEN primary(probe.input, 0) = parseAsExpression(probe.input, 1)
          ELSE \A n \in ListedCounts(probe.input) :
                  With(expression(probe.input, 2 * n + 2),
                       LAMBDA body :
                           body.ok
                              => /\ primary(probe.input, 0)
                                      = POk(LambdaNode(ListedNames(probe.input, n), body.node),
                                            body.cur)
                                 /\ probe.ast.ok
                                 /\ probe.ast.node
                                      = LambdaNode(ListedNames(probe.input, n), body.node))

\* ( a , 2 ) is not a parameter list: parsed from "a", it is the error of the
\* parenthesized expression; ( b , a ) => b is the Lambda of b and a
C25_Witness ==
    \/ /\ Evaluated(Stream(<<K("LPAREN"), I(<<"a">>), K("COMMA"), N(2), K("RPAREN")>>))
       /\ ~probe.ast.ok
       /\ probe.ast.err = "Expected ')' after expression"
    \/ /\ Evaluated(Stream(<<K("LPAREN"), I(<<"b">>), K("COMMA"), I(<<"a">>), K("RPAREN"),
                             K("ARROW"), I(<<"b">>)>>))
       /\ probe.ast.ok
       /\ probe.ast.node.params = <<<<"b">>, <<"a">>>>

LexicalErrors ==
    {"Unexpected character", "Unknown operator", "stod: no conversion", "stod: out of range"}

\* C26: tokenize ends on every text with a token vector or a lexical error;
\* every token it made took at least one character, so there are at most as
\* many tokens as characters before END; END is the last token and no other,
\* its offset is the length of the text, and the offsets strictly increase.
C26_TokenizeProgress ==
    Scanned
       => IF ~probe.tokens.ok
          THEN probe.tokens.err \in LexicalErrors
          ELSE LET ts == probe.tokens.tokens
                   n == Len(ts)
               IN /\ n >= 1
                  /\ n <= Len(probe.input) + 1
                  /\ ts[n].type = "END"
                  /\ ts[n].position = Len(probe.input)
                  /\ \A k \in 1..(n - 1) :
                        /\ ts[k].type # "END"
                        /\ Len(ts[k].lexeme) >= 1
                        /\ ts[k].position + Len(ts[k].lexeme) <= ts[k + 1].position
                        /\ ts[k].position < ts[k + 1].position

\* "1-e " is a number at 0, a minus at 1, an identifier at 2 and END at 4
C26_Witness ==
    /\ Scanned
    /\ probe.input = <<"1", "-", "e", " ">>
    /\ probe.tokens.ok
    /\ [k \in 1..4 |-> probe.tokens.tokens[k].position] = <<0, 1, 2, 4>>
    /\ probe.tokens.tokens[4].type = "END"

\* ------------------------------------------------------------------------
\* Claims on the sessions host
\* ------------------------------------------------------------------------
\* the call was name(args) with name bound to a Function of that many
\* parameters in the Environment found: evaluateFunctionCall applies it
InvokedStored ==
    /\ SessionCall
    /\ last.ast # NoNode
    /\ last.ast.t = "FUNCTION_CALL"
    /\ has(last.envBefore, last.ast.name)
    /\ isFunction(last.envBefore[last.ast.name])
    /\ Len(last.envBefore[last.ast.name].params) = Len(last.ast.args)

\* C27: in the sessions host (and the stateful host, whose eval is the same
\* code on one evaluator), when an eval invokes a lambda bound by let, the
\* AST holding the lambda's body still exists: eval owns the AST it parsed
\* and destroys it on return, so the body must belong to the AST of the
\* present call.
C27_LambdaBodyAlive ==
    InvokedStored => last.envBefore[last.ast.name].ast = steps

\* C28: in the sessions host a current session id that names an existing
\* session names one after every call; deleting the current session makes
\* "default" current and creates it, empty, when it is missing; createSession
\* on an existing id and deleteSession on a missing id return an error and
\* change neither the table nor the current id; a session that is created
\* (again) starts with an empty Environment.
C28_CurrentSessionExists ==
    [][/\ currentSessionId \in DOMAIN sessions => currentSessionId' \in DOMAIN sessions'
       /\ last'.op = "deleteSession"
             => IF last'.input \notin DOMAIN sessions
                THEN /\ ~last'.ok
                     /\ last'.err = "not found"
                     /\ sessions' = sessions
                     /\ currentSessionId' = currentSessionId
                ELSE /\ last'.ok
                     /\ \A id \in DOMAIN sessions \ {last'.input} :
                           id \in DOMAIN sessions' /\ sessions'[id] = sessions[id]
                     /\ IF last'.input = currentSessionId
                        THEN /\ currentSessionId' = "default"
                             /\ DOMAIN sessions' = (DOMAIN sessions \ {last'.input}) \cup {"default"}
                             /\ "default" \notin DOMAIN sessions \ {last'.input}
                                   => sessions'["default"] = EmptyEnv
                        ELSE /\ currentSessionId' = currentSessionId
                             /\ DOMAIN sessions' = DOMAIN sessions \ {last'.input}
       /\ last'.op = "createSession"
             => IF last'.input \in DOMAIN sessions
                THEN /\ ~last'.ok
                     /\ last'.err = "already exists"
                     /\ sessions' = sessions
                     /\ currentSessionId' = currentSessionId
                ELSE /\ last'.ok
                     /\ sessions' = makeEvaluator(sessions, last'.input)
                     /\ sessions'[last'.input] = EmptyEnv
                     /\ currentSessionId' = currentSessionId
      ]_vars

\* the current session "default", holding a binding, was deleted: "default"
\* is current and exists again with an empty Environment
C28_Witness ==
    /\ probe.kind = "sessions"
    /\ last.op = "deleteSession"
    /\ last.ok
    /\ last.input = "default"
    /\ probe.currentBefore = "default"
    /\ probe.sessionsBefore["default"] # EmptyEnv
    /\ currentSessionId = "default"
    /\ sessions["default"] = EmptyEnv

\* ------------------------------------------------------------------------
\* Claims on the parser's use of the token vector
\* ------------------------------------------------------------------------
Parsed == probe.kind = "tokens" /\ probe.done

\* C29: parse returns an AST only when the statement it parsed ends at END;
\* with other tokens left (2 3, or 2 + 3 )) it raises a syntax error.
C29_WholeStreamParsed ==
    (Parsed /\ probe.ast.ok) => peek(probe.input, probe.ast.cur).type = "END"

NotImaginary(toks, cur) ==
    check(toks, cur, "IDENTIFIER") /\ peek(toks, cur).lexeme # <<"i">>

\* C30: an identifier other than i that follows a numeric literal, or the
\* closing paren of a parenthesized expression, is not consumed: primary
\* returns with the cursor on that identifier.
C30_OnlyImaginaryUnitConsumed ==
    Parsed
       => /\ \A c \in 0..(Len(probe.input) - 2) :
                (check(probe.input, c, "NUMBER") /\ NotImaginary(probe.input, c + 1))
                   => primary(probe.input, c).cur = c + 1
          /\ (check(probe.input, 0, "LPAREN") /\ ListedCounts(probe.input) = {})
                => With(expression(probe.input, 1),
                        LAMBDA e :
                            (e.ok /\ check(probe.input, e.cur, "RPAREN")
                                  /\ NotImaginary(probe.input, e.cur + 1))
                               => primary(probe.input, 0).cur = e.cur + 1)

====
